---- MODULE Spec2Model ----
(***************************************************************************)
(* Seoul traffic ETL (src/data/etl/traffic_data/etl_trafficData.py):       *)
(* paginated fetch with retry, wide-to-tall transformation, per-chunk      *)
(* deduplication, upsert into the four fact tables, sequential run         *)
(* (run_full_etl) and the aggregate refresh.                               *)
(***************************************************************************)
EXTENDS Integers, Sequences, FiniteSets, TLC

(***************************************************************************)
(* Program constants                                                       *)
(***************************************************************************)
max_retries == 3
PageCeiling == 100
NumHours == 24
minconn == 2
maxconn == 8
max_workers == 4

(***************************************************************************)
(* Bounds of the model                                                     *)
(***************************************************************************)
NumDates == 2
chunk_size == 2
MaxFaults == 3
MaxOutages == 1
MaxPageLen == 3
MaxTimeouts == 1

Sources == {"API1", "API2", "API3", "API4"}
SourceOrderSwapped == <<"API2", "API1", "API3", "API4">>
SourceOrder == <<"API1", "API2", "API3", "API4">>
Dates == 1..NumDates
Hours == 0..(NumHours - 1)

\* a column that the upstream item does not carry, and SQL NULL
None == -1

\* a column whose value int() rejects, such as "N/A"
Malformed == -2

(***************************************************************************)
(* Upstream items.  A page of the upstream is a sequence of item tags; the *)
(* tag fixes the identifying fields and the hour columns of the item.      *)
(***************************************************************************)
Tags == {"a", "a2", "b", "c", "d", "m", "n"}

\* c: another region's route; d: a route known by its name only;
\* m: a metric that is no number; n: no station id
TagRoute(t) == CASE t = "c" -> "GG1"
                 [] t = "d" -> "GG2"
                 [] OTHER -> "100100113"
TagRouteNm(t) == IF t = "c" THEN "G-1" ELSE "N113"
TagNode(t) == CASE t = "a" -> "STA001"
                [] t = "a2" -> "STA001"
                [] t = "b" -> "STA002"
                [] t = "c" -> "STA003"
                [] t = "d" -> "STA004"
                [] t = "m" -> "STA005"
                [] OTHER -> ""
TagCols(t) == [h \in Hours |->
                 CASE t = "a" /\ h = 8 -> 42
                   [] t = "a" /\ h = 9 -> 10
                   [] t = "a2" /\ h = 8 -> 7
                   [] t = "b" /\ h = 8 -> 0
                   [] t = "c" /\ h = 8 -> 5
                   [] t = "d" /\ h = 8 -> 9
                   [] t = "m" /\ h = 8 -> Malformed
                   [] t = "m" /\ h = 9 -> 4
                   [] t = "n" /\ h = 8 -> 3
                   [] OTHER -> None]

\* the item of source s that tag t stands for
ItemOf(s, t) ==
  CASE s = "API1" -> [routeId |-> TagRoute(t), routeNm |-> TagRouteNm(t),
                      staId |-> TagNode(t), cols |-> TagCols(t)]
    [] s = "API3" -> [startSggNm |-> "SGG1", startEmdNm |-> TagNode(t),
                      endSggNm |-> "SGG2", endEmdNm |-> "EMD9",
                      totPsngNum |-> TagCols(t)[8]]
    [] OTHER -> [routeId |-> TagRoute(t), fromStaId |-> TagNode(t),
                 toStaId |-> "STA009", cols |-> TagCols(t)]

\* bus_routes rows read by load_seoul_routes
BusRouteIds == {"100100113"}
BusRouteNames == {"N113"}

(***************************************************************************)
(* Pure functions of the pipeline                                          *)
(***************************************************************************)
\* int(item.get(col, 0) or 0), where int() does not raise
IntOrZero(v) == IF v = None THEN 0 ELSE v

\* item.get(col), then int() inside try/except (ValueError, TypeError)
IntOrNoneZero(v) == IF v = None \/ v = Malformed THEN 0 ELSE v
IntOrNone(v) == IF v = None \/ v = Malformed THEN None ELSE v

\* the transformation of the item raises ValueError
ItemRaises(s, item) ==
  CASE s \in {"API1", "API4"} -> \E h \in Hours : item.cols[h] = Malformed
    [] s = "API3" -> item.totPsngNum = Malformed
    [] OTHER -> FALSE

is_seoul_route_open(ids, names, route_id, route_name) ==
  \/ route_id \in ids
  \/ route_name = ""
  \/ route_name \in names
is_seoul_route(ids, names, route_id, route_name) ==
  \/ route_id \in ids
  \/ (route_name # "" /\ route_name \in names)

\* one tall row of an item for one hour
TallRowNextHour(s, item, date, hour) ==
  [key |-> IF s = "API1" THEN <<date, item.routeId, item.staId, hour>>
           ELSE <<date, item.routeId, item.fromStaId, item.toStaId, hour>>,
   val |-> IntOrZero(item.cols[(hour + 1) % NumHours])]
TallRow(s, item, date, hour) ==
  CASE s = "API1" -> [key |-> <<date, item.routeId, item.staId, hour>>,
                      val |-> IntOrZero(item.cols[hour])]
    [] s = "API2" -> [key |-> <<date, item.routeId, item.fromStaId,
                                item.toStaId, hour>>,
                      val |-> IntOrNone(item.cols[hour])]
    [] OTHER -> [key |-> <<date, item.routeId, item.fromStaId,
                           item.toStaId, hour>>,
                 val |-> IntOrZero(item.cols[hour])]

\* the 24 rows of every item of a chunk, item by item, hour by hour
TallRows(s, chunk, date) ==
  [i \in 1..(Len(chunk) * NumHours) |->
     TallRow(s, chunk[((i - 1) \div NumHours) + 1], date, (i - 1) % NumHours)]

\* convert_api3_to_table before its deduplication: one row per item
OdRows(items, date) ==
  [i \in 1..Len(items) |->
     [key |-> <<date, items[i].startSggNm, items[i].startEmdNm,
                items[i].endSggNm, items[i].endEmdNm>>,
      val |-> IntOrZero(items[i].totPsngNum)]]

\* first pass of the duplicate check: the keys met a second or later time
DuplicateKeys(batch_data) ==
  {i \in 1..Len(batch_data) :
     \E j \in 1..(i - 1) : batch_data[j].key = batch_data[i].key}

RECURSIVE UniqueFrom(_, _, _)
UniqueFrom(batch_data, i, seen_keys) ==
  IF i > Len(batch_data) THEN <<>>
  ELSE IF batch_data[i].key \in seen_keys
       THEN UniqueFrom(batch_data, i + 1, seen_keys)
       ELSE <<batch_data[i]>> \o
            UniqueFrom(batch_data, i + 1, seen_keys \cup {batch_data[i].key})

\* second pass: the first record of every key, in input order
LastOccurrences(batch_data) ==
  LET keep == SelectSeq([i \in DOMAIN batch_data |-> i], LAMBDA i :
                \A j \in (i + 1)..Len(batch_data) :
                   batch_data[j].key # batch_data[i].key)
  IN  [n \in DOMAIN keep |-> batch_data[keep[n]]]
FirstOccurrences(batch_data) == UniqueFrom(batch_data, 1, {})

\* the deduplication of one batch: what is handed on, and the count logged
DeduplicateNone(batch_data) == [unique |-> batch_data, dropped |-> 0]
Deduplicate(batch_data) ==
  IF DuplicateKeys(batch_data) # {}
  THEN [unique |-> FirstOccurrences(batch_data),
        dropped |-> Cardinality(DuplicateKeys(batch_data))]
  ELSE [unique |-> batch_data, dropped |-> 0]

\* INSERT ... ON CONFLICT (key) DO UPDATE SET val = EXCLUDED.val
UpsertAdd(table, batch_data) ==
  LET keys == {batch_data[i].key : i \in DOMAIN batch_data}
      old(k) == IF \E r \in table : r.key = k
                THEN (CHOOSE r \in table : r.key = k).val ELSE 0
  IN  {r \in table : r.key \notin keys} \cup
      {[key |-> batch_data[i].key,
        val |-> old(batch_data[i].key) + IntOrZero(batch_data[i].val)] :
          i \in {n \in DOMAIN batch_data :
                   \A m \in DOMAIN batch_data :
                      batch_data[m].key = batch_data[n].key => m <= n}}

Upsert(table, batch_data) ==
  LET keys == {batch_data[i].key : i \in DOMAIN batch_data}
  IN  {r \in table : r.key \notin keys} \cup
      {batch_data[i] :
          i \in {n \in DOMAIN batch_data :
                   \A m \in DOMAIN batch_data :
                      batch_data[m].key = batch_data[n].key => m <= n}}

\* the chunks items[i:i + chunk_size] of a page
Chunks(items) ==
  [c \in 1..((Len(items) + chunk_size - 1) \div chunk_size) |->
     SubSeq(items, (c - 1) * chunk_size + 1,
            IF c * chunk_size < Len(items) THEN c * chunk_size ELSE Len(items))]


RECURSIVE SumLen(_)
SumLen(batches) ==
  IF batches = <<>> THEN 0 ELSE Len(Head(batches)) + SumLen(Tail(batches))

RECURSIVE UpsertAllBackwards(_, _)
UpsertAllBackwards(table, batches) ==
  IF batches = <<>> THEN table
  ELSE Upsert(UpsertAllBackwards(table, Tail(batches)), Head(batches))
RECURSIVE UpsertAll(_, _)
UpsertAll(table, batches) ==
  IF batches = <<>> THEN table
  ELSE UpsertAll(Upsert(table, Head(batches)), Tail(batches))

\* the items of a fetched page that pass the page-level route filter
SeoulItems(s, items, ids, names) ==
  CASE s = "API1" -> SelectSeq(items, LAMBDA it :
                        is_seoul_route(ids, names, it.routeId, it.routeNm))
    [] s = "API2" -> SelectSeq(items, LAMBDA it :
                        is_seoul_route(ids, names, it.routeId, ""))
    [] OTHER -> items

\* batch_data of one chunk, before the duplicate check
ChunkRowsUnfiltered(s, chunk, date, ids, names) == TallRows(s, chunk, date)
ChunkRows(s, chunk, date, ids, names) ==
  IF s = "API4"
  THEN TallRows(s, SelectSeq(chunk, LAMBDA it :
                      is_seoul_route(ids, names, it.routeId, "")), date)
  ELSE TallRows(s, chunk, date)

\* the transformation of the chunk raises
ChunkRaises(s, chunk, ids, names) ==
  \E i \in DOMAIN chunk :
     /\ ItemRaises(s, chunk[i])
     /\ s = "API4" => is_seoul_route(ids, names, chunk[i].routeId, "")

\* the transformation of the page raises before all its chunks are written
TransformRaises(s, seoul_items, ids, names) ==
  ChunkRaises(s, seoul_items, ids, names)

\* the items of the chunks that are transformed and written before the
\* first chunk that raises; convert_api3_to_table takes the page as a whole
SafeItems(s, seoul_items, ids, names) ==
  LET ch == Chunks(seoul_items)
      bad == {c \in DOMAIN ch : ChunkRaises(s, ch[c], ids, names)}
      first == CHOOSE c \in bad : \A d \in bad : c <= d
  IN  IF bad = {} THEN seoul_items
      ELSE IF s = "API3" THEN <<>>
      ELSE SubSeq(seoul_items, 1, (first - 1) * chunk_size)

\* the batches of a page before deduplication, empty ones left out
RawBatches(s, seoul_items, date, ids, names) ==
  IF s = "API3"
  THEN SelectSeq(<<OdRows(seoul_items, date)>>, LAMBDA b : b # <<>>)
  ELSE SelectSeq([c \in DOMAIN Chunks(seoul_items) |->
                    ChunkRows(s, Chunks(seoul_items)[c], date, ids, names)],
                 LAMBDA b : b # <<>>)

\* the rows the duplicate checks of the batches of a page report as dropped
RECURSIVE SumDropped(_)
SumDropped(raw) ==
  IF raw = <<>> THEN 0
  ELSE Deduplicate(Head(raw)).dropped + SumDropped(Tail(raw))

(***************************************************************************)
(* The upstream: for every source a list of pages and what follows them    *)
(***************************************************************************)
FeedChoices ==
  << [pages |-> << <<"a", "b", "c", "a2">>, <<"b", "c", "d">> >>,
       tail |-> "empty"],
     [pages |-> << <<"a", "a2">> >>, tail |-> "sentinel"],
     [pages |-> << <<"c">>, <<"a">> >>, tail |-> "sentinel"],
     [pages |-> << >>, tail |-> "empty"] >>

\* feed number n gives source number i the choice number n + i
FeedsOf(choices) ==
  {[s \in Sources |->
      choices[((n + (CHOOSE i \in 1..4 : SourceOrder[i] = s))
                 % Len(choices)) + 1]] : n \in 1..Len(choices)}

Feeds == FeedsOf(FeedChoices)

\* upstreams that never signal the end of the data
EndlessChoices ==
  << [pages |-> << <<"a", "b", "c">> >>, tail |-> "repeat"],
     [pages |-> << <<"c">>, <<"a">> >>, tail |-> "repeat"],
     [pages |-> << <<"b">> >>, tail |-> "repeat"] >>

EndlessFeeds == FeedsOf(EndlessChoices)

VARIABLES
  pc,                \* where run_full_etl stands
  current_date,      \* run_full_etl: the date of the day loop
  api_idx,           \* the source of the running unit, as index of SourceOrder
  page_num,          \* process_apiN: the page of the pagination loop
  attempt,           \* make_api_request: the loop variable
  response_data,     \* what make_api_request returned
  daily_inserted,    \* process_apiN: rows inserted for the date
  totals,            \* run_full_etl: total_apiN_count
  api_call_counts,   \* self.api_call_counts
  filter_stats,      \* self.filter_stats
  seoul_route_ids,   \* self.seoul_route_ids
  seoul_route_names, \* self.seoul_route_names
  job_status,        \* table etl_job_status, column status
  conn,              \* self.conn: none, open, broken (server gone, not yet
                     \* noticed) or closed
  poolBroken,        \* idle connections of the pool that the server dropped
  dbUp,              \* the database server answers
  store,             \* the four fact tables
  feed,              \* the upstream
  faultsLeft,        \* transient upstream faults still to come
  outagesLeft,       \* database outages still to come
  httpAttempts,      \* history: HTTP attempts made, by source
  pageAttempts,      \* history: attempts of the current make_api_request
  waits,             \* history: the sleeps of the current make_api_request
  lastStatus,        \* history: how the latest attempt ended
  pagesRequested,    \* history: pages requested by the running unit
  sawEnd,            \* history: the unit got an empty page or the sentinel
  rehanded,          \* history: a key was handed to the writer a second time
  batchDup,          \* history: a batch with a repeated key reached a writer
  writeFailed,       \* history: an insert_*_batch call of the run has raised
  lastDropped,       \* history: dropped count logged for the latest page
  refreshCalls,      \* history: calls of refresh_materialized_views
  failedDate,        \* history: the date of the latest failed day, or 0
  runNo,             \* which run of the program over the same store this is
  firstStore,        \* history: the fact tables at the end of the first run
  dd_src,            \* the source whose page is put through the chunk pipeline
  dd_page,           \* that page
  dd_out,            \* what the chunk pipeline made of it
  futures,           \* run_parallel_etl: the (source, date) of every future
  tasks,             \* the submitted tasks: state, returned count, outcome
  fut_idx,           \* run_parallel_etl: the future the result loop waits for
  timeoutsLeft,      \* future.result timeouts still to come
  connHolders,       \* history: running tasks that have used self.conn
  jobFinals,         \* history: SUCCESS/FAILED writes since the last RUNNING
  api_keys,          \* __init__: whether os.getenv gave a key for the source
  mv_ran,            \* history: the statements the refresh has executed
  logFaultsLeft      \* recorder statements the server will still reject

vars == <<pc, current_date, api_idx, page_num, attempt, response_data,
          daily_inserted, totals, api_call_counts, filter_stats,
          seoul_route_ids, seoul_route_names, job_status, conn, poolBroken,
          dbUp, store, feed, faultsLeft, outagesLeft, httpAttempts,
          pageAttempts, waits, lastStatus, pagesRequested, sawEnd,
          rehanded, batchDup, writeFailed, lastDropped, refreshCalls,
          failedDate, runNo, firstStore, dd_src, dd_page, dd_out, futures,
          tasks, fut_idx, timeoutsLeft, connHolders, jobFinals, api_keys,
          mv_ran, logFaultsLeft>>

NoData == [ok |-> FALSE, items |-> <<>>]

NotRun == [done |-> FALSE, raised |-> FALSE, raw |-> <<>>, batches |-> <<>>,
           dropped |-> 0]

InitAll(feeds, start_date, faults, outages, rejects) ==
  /\ pc = "start"
  /\ current_date = start_date
  /\ api_idx = 1
  /\ page_num = 1
  /\ attempt = 0
  /\ response_data = NoData
  /\ daily_inserted = 0
  /\ totals = [s \in Sources |-> 0]
  /\ api_call_counts = [s \in Sources |-> 0]
  /\ filter_stats = [s \in Sources \ {"API3"} |->
                       [total_fetched |-> 0, seoul_filtered |-> 0]]
  /\ seoul_route_ids = {}
  /\ seoul_route_names = {}
  /\ job_status = [s \in Sources |-> "PENDING"]
  /\ conn = "none"
  /\ poolBroken = 0
  /\ dbUp = TRUE
  /\ store = [s \in Sources |-> {}]
  /\ feed \in feeds
  /\ faultsLeft = faults
  /\ outagesLeft = outages
  /\ httpAttempts = [s \in Sources |-> 0]
  /\ pageAttempts = 0
  /\ waits = <<>>
  /\ lastStatus = "none"
  /\ pagesRequested = 0
  /\ sawEnd = FALSE
  /\ rehanded = FALSE
  /\ batchDup = FALSE
  /\ writeFailed = FALSE
  /\ lastDropped = 0
  /\ refreshCalls = 0
  /\ failedDate = 0
  /\ runNo = 1
  /\ firstStore = [s \in Sources |-> {}]
  /\ futures = <<>>
  /\ tasks = <<>>
  /\ fut_idx = 1
  /\ timeoutsLeft = 0
  /\ connHolders = {}
  /\ jobFinals = [s \in Sources |-> 0]
  /\ mv_ran = <<>>
  /\ logFaultsLeft = rejects

\* a run in which the server takes every statement of the recorder
InitRun(feeds, start_date, faults, outages) ==
  InitAll(feeds, start_date, faults, outages, 0)

\* every source has its key in the environment
AllKeys == [s \in Sources |-> TRUE]

InitWith(feeds, start_date, faults, outages) ==
  /\ InitRun(feeds, start_date, faults, outages)
  /\ api_keys = AllKeys
  /\ dd_src = "API1"
  /\ dd_page = <<>>
  /\ dd_out = NotRun

\* a run over the last date only, with a faulty upstream
Init == InitWith(Feeds, NumDates, MaxFaults, 0)

\* a run over all dates, with a database that can go away
InitDb == InitWith(Feeds, 1, 0, MaxOutages)


(***************************************************************************)
(* Helpers of the actions                                                  *)
(***************************************************************************)
Src == SourceOrder[api_idx]

\* self.conn after a statement on it whose error is swallowed
LogOp(c) == IF c = "broken" THEN "closed" ELSE c

\* whether the server rejects the statement of a recorder call on a live
\* self.conn: it can while rejections are left
Rejects(c) == {FALSE} \cup {r \in {TRUE} : logFaultsLeft > 0 /\ c = "open"}

\* self.conn after a recorder call: "except Exception" only logs, there is no
\* rollback, so a rejected statement leaves the transaction of self.conn
\* failed and every later statement on self.cur raises
Recorded(c, rejected) == IF rejected THEN "aborted" ELSE LogOp(c)

LeftAfter(rejected) == IF rejected THEN logFaultsLeft - 1 ELSE logFaultsLeft

\* what the upstream answers for page p of source s when no fault strikes
Answer(s, p) ==
  LET f == feed[s]
  IN  IF p <= Len(f.pages) THEN [status |-> 200, items |-> f.pages[p]]
      ELSE CASE f.tail = "empty" -> [status |-> 200, items |-> <<>>]
             [] f.tail = "sentinel" -> [status |-> 500, items |-> <<>>]
             [] OTHER -> [status |-> 200, items |-> f.pages[Len(f.pages)]]

\* range(self.api_config['max_retries'])
AttemptLimitShort == max_retries - 1
AttemptLimit == max_retries

\* the statuses on which make_api_request returns without another attempt
ReturnsAtOnce200(status) == status = "200"
ReturnsAtOnce(status) == status = "200" \/ status = "500"

\* time.sleep(2 ** attempt) when attempt < max_retries - 1
Backoff(a) == IF a < max_retries - 1 THEN <<2 ^ a>> ELSE <<>>

\* the counter after an attempt that got a response / that raised
CountResponse(counts, s) == [counts EXCEPT ![s] = @ + 1]
CountException(counts, s) == counts

\* "if not response_data: break" and "if not items: break"
EndsPaginationNoData(resp) == ~resp.ok
EndsPaginationNoneKept(resp) ==
  \/ ~resp.ok
  \/ \A i \in DOMAIN resp.items :
       ~is_seoul_route(BusRouteIds, BusRouteNames, TagRoute(resp.items[i]),
                       IF Src = "API1" THEN TagRouteNm(resp.items[i]) ELSE "")
EndsPagination(resp) == ~resp.ok \/ resp.items = <<>>

\* "page_num += 1; if page_num > 100: break"
CeilingReachedLate(p) == p > PageCeiling + 1
CeilingReached(p) == p > PageCeiling

HasRepeatedKey(batch) ==
  \E i, j \in DOMAIN batch : i < j /\ batch[i].key = batch[j].key

KeysOf(s, batch) == {<<s, batch[i].key>> : i \in DOMAIN batch}
StoredKeys(s, table) == {<<s, r.key>> : r \in table}

\* the items process_api4_chunk_streaming has counted when the insert of
\* the first non-empty batch raises
Api4CountedOnFailure(items, ids, names) ==
  LET ch == Chunks(items)
      hit == {c \in DOMAIN ch :
                ChunkRows("API4", ch[c], 0, ids, names) # <<>>}
      first == IF hit = {} THEN Len(ch)
               ELSE CHOOSE c \in hit : \A d \in hit : c <= d
  IN  SubSeq(items, 1, IF first * chunk_size < Len(items)
                       THEN first * chunk_size ELSE Len(items))

\* the items process_api4_chunk_streaming has counted when the
\* transformation of an item raises
Api4CountedOnRaise(items, ids, names) ==
  LET bad == {i \in DOMAIN items :
                /\ ItemRaises("API4", items[i])
                /\ is_seoul_route(ids, names, items[i].routeId, "")}
  IN  IF bad = {} THEN items
      ELSE SubSeq(items, 1, CHOOSE i \in bad : \A j \in bad : i <= j)

Counted(stats, s, fetched, kept) ==
  IF s = "API3" THEN stats
  ELSE [stats EXCEPT ![s] = [total_fetched |-> @.total_fetched + fetched,
                             seoul_filtered |-> @.seoul_filtered + kept]]

(***************************************************************************)
(* run_full_etl                                                            *)
(***************************************************************************)
EnvVars == <<dbUp, poolBroken, outagesLeft, logFaultsLeft>>
HistPage == <<httpAttempts, pageAttempts, waits, lastStatus, pagesRequested,
              sawEnd>>
HistWrite == <<rehanded, batchDup, writeFailed, lastDropped>>
RunVars == <<runNo, firstStore, api_keys, mv_ran>>
PureVars == <<dd_src, dd_page, dd_out>>
ParVars == <<futures, tasks, fut_idx, timeoutsLeft, connHolders, jobFinals>>

\* connect_db and load_seoul_routes at the start of the run
RunStart ==
  /\ pc = "start"
  /\ IF dbUp
     THEN /\ conn' = "open"
          /\ seoul_route_ids' = BusRouteIds
          /\ seoul_route_names' = BusRouteNames
          /\ pc' = "day_loop"
     ELSE /\ pc' = "aborted"
          /\ UNCHANGED <<conn, seoul_route_ids, seoul_route_names>>
  /\ UNCHANGED <<current_date, api_idx, page_num, attempt, response_data,
                 daily_inserted, totals, api_call_counts, filter_stats,
                 job_status, store, feed, faultsLeft, refreshCalls,
                 failedDate>>
  /\ UNCHANGED <<EnvVars, HistPage, HistWrite>>
  /\ UNCHANGED <<RunVars, PureVars, ParVars>>

\* "while current_date <= end_dt"
DayLoop ==
  /\ pc = "day_loop"
  /\ IF current_date <= NumDates
     THEN pc' = "unit_start" /\ api_idx' = 1
     ELSE pc' = "refresh" /\ UNCHANGED api_idx
  /\ UNCHANGED <<current_date, page_num, attempt, response_data,
                 daily_inserted, totals, api_call_counts, filter_stats,
                 seoul_route_ids, seoul_route_names, job_status, conn, store,
                 feed, faultsLeft, refreshCalls, failedDate>>
  /\ UNCHANGED <<EnvVars, HistPage, HistWrite>>
  /\ UNCHANGED <<RunVars, PureVars, ParVars>>

\* process_apiN up to the pagination loop
UnitStart ==
  /\ pc = "unit_start"
  /\ IF conn \in {"none", "closed"} /\ ~dbUp
     THEN \* connect_db raises; the FAILED status cannot be written
          /\ pc' = "day_failed"
          /\ failedDate' = current_date
          /\ UNCHANGED <<conn, job_status, page_num, attempt, response_data,
                         daily_inserted, HistPage, logFaultsLeft>>
     ELSE \E c \in {IF conn \in {"none", "closed"} THEN "open" ELSE conn} :
          \E rejected \in Rejects(c) :
              /\ job_status' = IF c = "open" /\ ~rejected
                               THEN [job_status EXCEPT ![Src] = "RUNNING"]
                               ELSE job_status
              /\ conn' = Recorded(c, rejected)
              /\ logFaultsLeft' = LeftAfter(rejected)
              /\ page_num' = 1
              /\ daily_inserted' = 0
              /\ attempt' = 0
              /\ response_data' = NoData
              /\ pageAttempts' = 0
              /\ waits' = <<>>
              /\ lastStatus' = "none"
              /\ pagesRequested' = 0
              /\ sawEnd' = FALSE
              /\ pc' = "request"
              /\ UNCHANGED <<failedDate, httpAttempts>>
  /\ UNCHANGED <<current_date, api_idx, totals, api_call_counts, filter_stats,
                 seoul_route_ids, seoul_route_names, store, feed, faultsLeft,
                 refreshCalls, rehanded, batchDup, writeFailed, lastDropped>>
  /\ UNCHANGED <<dbUp, poolBroken, outagesLeft>>
  /\ UNCHANGED <<RunVars, PureVars, ParVars>>

\* one pass of the retry loop of make_api_request
HttpAttempt ==
  /\ pc = "request"
  /\ attempt < AttemptLimit
  /\ \E o \in {"answer", "503", "exception", "401"} :
       LET ans == Answer(Src, page_num)
           status == IF o # "answer" THEN o
                     ELSE IF ans.status = 200 THEN "200" ELSE "500"
       IN  \* a request sent with apikey=None is refused by the upstream
           /\ (o = "401") = ~api_keys[Src]
           /\ o \in {"503", "exception"} => faultsLeft > 0
           /\ faultsLeft' = IF o \in {"503", "exception"}
                            THEN faultsLeft - 1 ELSE faultsLeft
           /\ httpAttempts' = [httpAttempts EXCEPT ![Src] = @ + 1]
           /\ pageAttempts' = pageAttempts + 1
           /\ pagesRequested' = IF attempt = 0 THEN pagesRequested + 1
                                ELSE pagesRequested
           /\ lastStatus' = status
           /\ sawEnd' = (sawEnd \/ (o = "answer" /\
                                    (ans.status = 500 \/ ans.items = <<>>)))
           /\ api_call_counts' = IF status = "exception"
                                 THEN CountException(api_call_counts, Src)
                                 ELSE CountResponse(api_call_counts, Src)
           /\ IF ReturnsAtOnce(status)
              THEN /\ response_data' = IF status = "200"
                                       THEN [ok |-> TRUE, items |-> ans.items]
                                       ELSE NoData
                   /\ pc' = "page"
                   /\ UNCHANGED <<attempt, waits>>
              ELSE /\ waits' = waits \o Backoff(attempt)
                   /\ attempt' = attempt + 1
                   /\ response_data' = NoData
                   /\ pc' = IF attempt + 1 < AttemptLimit
                            THEN "request" ELSE "page"
  /\ UNCHANGED <<current_date, api_idx, page_num, daily_inserted, totals,
                 filter_stats, seoul_route_ids, seoul_route_names, job_status,
                 conn, store, feed, refreshCalls, failedDate>>
  /\ UNCHANGED <<EnvVars, HistWrite>>
  /\ UNCHANGED <<RunVars, PureVars, ParVars>>

\* the outcome of the insert_*_batch calls of a page: the pooled writers
\* need a live pooled connection, the others a live self.conn
WriteSucceeds(s, batches, c, broken, up) ==
  \/ batches = <<>>
  \/ IF s \in {"API1", "API2"} THEN broken = 0 /\ up ELSE c = "open"

\* the body of the pagination loop after make_api_request has returned;
\* the bound variables hold the values the loop body computes
ProcessPage ==
  /\ pc = "page"
  /\ \E s \in {Src} :
     \E items \in {[i \in DOMAIN response_data.items |->
                      ItemOf(s, response_data.items[i])]} :
     \E kept \in {SeoulItems(s, items, seoul_route_ids, seoul_route_names)} :
     \E raises \in {TransformRaises(s, kept, seoul_route_ids,
                                     seoul_route_names)} :
     \E raw \in {RawBatches(s, SafeItems(s, kept, seoul_route_ids,
                                         seoul_route_names),
                            current_date, seoul_route_ids,
                            seoul_route_names)} :
     \E batches \in {[b \in DOMAIN raw |-> Deduplicate(raw[b]).unique]} :
     \E ok \in {WriteSucceeds(s, batches, conn, poolBroken, dbUp)} :
     \E handed \in {IF ok THEN batches ELSE <<batches[1]>>} :
     \E keys \in {UNION {KeysOf(s, handed[b]) : b \in DOMAIN handed}} :
     \E counted \in {IF s = "API4" /\ ~ok
                     THEN Api4CountedOnFailure(items, seoul_route_ids,
                                               seoul_route_names)
                     ELSE IF s = "API4"
                     THEN Api4CountedOnRaise(items, seoul_route_ids,
                                             seoul_route_names)
                     ELSE items} :
     \E rejected \in Rejects(conn) :
       IF EndsPagination(response_data)
       THEN /\ pc' = "unit_end"
            /\ s # "API1" => ~rejected
            /\ conn' = IF s = "API1" THEN Recorded(conn, rejected) ELSE conn
            /\ logFaultsLeft' = LeftAfter(rejected)
            /\ UNCHANGED <<page_num, attempt, response_data, daily_inserted,
                           filter_stats, store, poolBroken, HistPage,
                           HistWrite>>
       ELSE /\ filter_stats' =
                 Counted(filter_stats, s, Len(counted),
                         Len(SelectSeq(counted, LAMBDA it :
                               is_seoul_route(seoul_route_ids,
                                 seoul_route_names, it.routeId,
                                 IF s = "API1" THEN it.routeNm ELSE ""))))
            /\ rehanded' =
                 (\/ rehanded
                  \/ keys \cap StoredKeys(s, store[s]) # {}
                  \/ \E b \in DOMAIN handed : HasRepeatedKey(handed[b])
                  \/ \E b, c \in DOMAIN handed :
                       b < c /\ KeysOf(s, handed[b]) \cap
                                KeysOf(s, handed[c]) # {})
            /\ batchDup' = (batchDup \/
                            \E b \in DOMAIN handed : HasRepeatedKey(handed[b]))
            /\ lastDropped' = SumDropped(raw)
            /\ writeFailed' = (writeFailed \/ ~ok)
            /\ IF ok /\ raises
               THEN \* the chunks before the one that raises are written;
                    \* "except Exception" logs the error and breaks
                    /\ store' = [store EXCEPT ![s] = UpsertAll(@, batches)]
                    /\ pc' = "unit_end"
                    /\ conn' = Recorded(conn, rejected)
                    /\ logFaultsLeft' = LeftAfter(rejected)
                    /\ UNCHANGED <<daily_inserted, page_num, attempt,
                                   response_data, poolBroken, HistPage>>
               ELSE IF ok
               THEN /\ store' = [store EXCEPT ![s] = UpsertAll(@, batches)]
                    /\ daily_inserted' = daily_inserted + SumLen(batches)
                    /\ page_num' = page_num + 1
                    /\ pc' = IF CeilingReached(page_num + 1)
                             THEN "unit_end" ELSE "request"
                    /\ attempt' = 0
                    /\ response_data' = NoData
                    /\ pageAttempts' = 0
                    /\ waits' = <<>>
                    /\ lastStatus' = "none"
                    /\ ~rejected
                    /\ UNCHANGED <<conn, poolBroken, httpAttempts,
                                   pagesRequested, sawEnd, logFaultsLeft>>
               ELSE /\ pc' = "unit_end"
                    /\ conn' = Recorded(conn, rejected)
                    /\ logFaultsLeft' = LeftAfter(rejected)
                    /\ poolBroken' = IF s \in {"API1", "API2"} /\ poolBroken > 0
                                     THEN poolBroken - 1 ELSE poolBroken
                    /\ UNCHANGED <<store, daily_inserted, page_num, attempt,
                                   response_data, HistPage>>
  /\ UNCHANGED <<current_date, api_idx, totals, api_call_counts,
                 seoul_route_ids, seoul_route_names, job_status, feed,
                 faultsLeft, refreshCalls, failedDate, dbUp, outagesLeft>>
  /\ UNCHANGED <<RunVars, PureVars, ParVars>>

\* the end of process_apiN and the return to run_full_etl
UnitEnd ==
  /\ pc = "unit_end"
  /\ \E rejected \in Rejects(conn) :
       /\ job_status' = IF conn = "open" /\ ~rejected
                        THEN [job_status EXCEPT ![Src] = "SUCCESS"]
                        ELSE job_status
       /\ conn' = Recorded(conn, rejected)
       /\ logFaultsLeft' = LeftAfter(rejected)
  /\ totals' = [totals EXCEPT ![Src] = @ + daily_inserted]
  /\ IF api_idx < Len(SourceOrder)
     THEN /\ api_idx' = api_idx + 1
          /\ pc' = "unit_start"
          /\ UNCHANGED current_date
     ELSE /\ current_date' = current_date + 1
          /\ pc' = "day_loop"
          /\ UNCHANGED api_idx
  /\ UNCHANGED <<page_num, attempt, response_data, daily_inserted,
                 api_call_counts, filter_stats, seoul_route_ids,
                 seoul_route_names, store, feed, faultsLeft, refreshCalls,
                 failedDate>>
  /\ UNCHANGED <<dbUp, poolBroken, outagesLeft, HistPage, HistWrite>>
  /\ UNCHANGED <<RunVars, PureVars, ParVars>>

\* "except Exception as e: ... continue" of the day loop
DayFailed ==
  /\ pc = "day_failed"
  /\ pc' = "day_loop"
  /\ UNCHANGED <<current_date, api_idx, page_num, attempt, response_data,
                 daily_inserted, totals, api_call_counts, filter_stats,
                 seoul_route_ids, seoul_route_names, job_status, conn, store,
                 feed, faultsLeft, refreshCalls, failedDate>>
  /\ UNCHANGED <<EnvVars, HistPage, HistWrite>>
  /\ UNCHANGED <<RunVars, PureVars, ParVars>>

\* the summary, refresh_materialized_views and close_db
\* refresh_materialized_views on self.cur: the first statement and the
\* statistics query are not inside a try of their own, so the first one that
\* raises ends the refresh; the existence check of the pattern view is, and
\* its fetchone()[0] on a RealDictCursor row raises, so the refresh function
\* of that view is not called
RefreshRun(c) ==
  IF c # "open"
  THEN [ran |-> <<"refresh_all_traffic_views">>, raised |-> TRUE]
  ELSE [ran |-> <<"refresh_all_traffic_views", "pg_matviews",
                  "check_mv_statistics">>,
        raised |-> FALSE]

\* the refresh at the end of run_full_etl and close_db
Refresh ==
  /\ pc = "refresh"
  /\ refreshCalls' = refreshCalls + 1
  /\ mv_ran' = RefreshRun(conn).ran
  /\ conn' = "closed"
  /\ pc' = "done"
  /\ UNCHANGED <<current_date, api_idx, page_num, attempt, response_data,
                 daily_inserted, totals, api_call_counts, filter_stats,
                 seoul_route_ids, seoul_route_names, job_status, store, feed,
                 faultsLeft, failedDate>>
  /\ UNCHANGED <<EnvVars, HistPage, HistWrite>>
  /\ UNCHANGED <<runNo, firstStore, api_keys, PureVars, ParVars>>

(***************************************************************************)
(* A sequential run over all dates in which the server rejects statements  *)
(* of the recorder (log_etl_status, log_etl_message); the upstream and the *)
(* connections are sound                                                   *)
(***************************************************************************)
MaxRejects == 1

InitLog ==
  /\ InitAll(Feeds, 1, 0, 0, MaxRejects)
  /\ api_keys = AllKeys
  /\ dd_src = "API1"
  /\ dd_page = <<>>
  /\ dd_out = NotRun

(***************************************************************************)
(* The database server                                                     *)
(***************************************************************************)
DbOutage ==
  /\ dbUp
  /\ outagesLeft > 0
  /\ pc \notin {"done", "aborted"}
  /\ dbUp' = FALSE
  /\ outagesLeft' = outagesLeft - 1
  /\ conn' = IF conn = "open" THEN "broken" ELSE conn
  /\ poolBroken' = minconn
  /\ UNCHANGED <<pc, current_date, api_idx, page_num, attempt, response_data,
                 daily_inserted, totals, api_call_counts, filter_stats,
                 seoul_route_ids, seoul_route_names, job_status, store, feed,
                 faultsLeft, refreshCalls, failedDate>>
  /\ UNCHANGED <<HistPage, HistWrite, logFaultsLeft>>
  /\ UNCHANGED <<RunVars, PureVars, ParVars>>

DbRecover ==
  /\ ~dbUp
  /\ pc \notin {"done", "aborted"}
  /\ dbUp' = TRUE
  /\ UNCHANGED <<pc, current_date, api_idx, page_num, attempt, response_data,
                 daily_inserted, totals, api_call_counts, filter_stats,
                 seoul_route_ids, seoul_route_names, job_status, conn,
                 poolBroken, outagesLeft, store, feed, faultsLeft,
                 refreshCalls, failedDate>>
  /\ UNCHANGED <<HistPage, HistWrite, logFaultsLeft>>
  /\ UNCHANGED <<RunVars, PureVars, ParVars>>

Next == \/ RunStart \/ DayLoop \/ UnitStart \/ HttpAttempt \/ ProcessPage
        \/ UnitEnd \/ Refresh

Spec == Init /\ [][Next]_vars

Prog == Next \/ DayFailed

NextDb == Prog \/ DbOutage \/ DbRecover

SpecDb == InitDb /\ [][NextDb]_vars

SpecLog == InitLog /\ [][Next]_vars

TypeOK ==
  /\ pc \in {"start", "day_loop", "unit_start", "request", "page", "unit_end",
             "day_failed", "refresh", "done", "aborted", "par_collect"}
  /\ current_date \in 1..(NumDates + 1)
  /\ page_num \in 1..(PageCeiling + 1)
  /\ attempt \in 0..max_retries
  /\ conn \in {"none", "open", "broken", "closed", "aborted"}
  /\ api_keys \in [Sources -> BOOLEAN]


\* the program keeps running; the database owes nothing
SpecDbFair == InitDb /\ [][NextDb]_vars /\ WF_vars(Prog)

(***************************************************************************)
(* A second run of the program over the same tables and the same upstream  *)
(***************************************************************************)
InitRerun == InitWith(Feeds, 1, 0, 0)

\* the process is started again: __init__ and run_full_etl from the first
\* date; the tables and the upstream are what they were
Rerun ==
  /\ pc = "done"
  /\ runNo = 1
  /\ runNo' = 2
  /\ firstStore' = store
  /\ api_keys' = api_keys
  /\ mv_ran' = <<>>
  /\ pc' = "start"
  /\ current_date' = 1
  /\ api_idx' = 1
  /\ page_num' = 1
  /\ attempt' = 0
  /\ response_data' = NoData
  /\ daily_inserted' = 0
  /\ totals' = [s \in Sources |-> 0]
  /\ api_call_counts' = [s \in Sources |-> 0]
  /\ filter_stats' = [s \in Sources \ {"API3"} |->
                        [total_fetched |-> 0, seoul_filtered |-> 0]]
  /\ seoul_route_ids' = {}
  /\ seoul_route_names' = {}
  /\ conn' = "none"
  /\ httpAttempts' = [s \in Sources |-> 0]
  /\ pageAttempts' = 0
  /\ waits' = <<>>
  /\ lastStatus' = "none"
  /\ pagesRequested' = 0
  /\ sawEnd' = FALSE
  /\ rehanded' = FALSE
  /\ batchDup' = FALSE
  /\ writeFailed' = FALSE
  /\ lastDropped' = 0
  /\ refreshCalls' = 0
  /\ failedDate' = 0
  /\ UNCHANGED <<job_status, store, feed, faultsLeft, EnvVars, PureVars,
                 ParVars>>

NextRerun == Next \/ Rerun

SpecRerun == InitRerun /\ [][NextRerun]_vars

(***************************************************************************)
(* One fetched page put through the chunk pipeline: filter, chunks,        *)
(* transformation and the duplicate check of every batch                   *)
(***************************************************************************)
Pages == UNION {[1..n -> Tags] : n \in 0..MaxPageLen}

InitDedup ==
  /\ InitRun({CHOOSE f \in Feeds : TRUE}, 1, 0, 0)
  /\ api_keys = AllKeys
  /\ dd_src \in Sources
  /\ dd_page \in Pages
  /\ dd_out = NotRun

DedupPage ==
  /\ ~dd_out.done
  /\ \E items \in {[i \in DOMAIN dd_page |-> ItemOf(dd_src, dd_page[i])]} :
     \E kept \in {SeoulItems(dd_src, items, BusRouteIds, BusRouteNames)} :
     \E raw \in {RawBatches(dd_src,
                            SafeItems(dd_src, kept, BusRouteIds, BusRouteNames),
                            1, BusRouteIds, BusRouteNames)} :
       dd_out' = [done    |-> TRUE,
                  raised  |-> TransformRaises(dd_src, kept, BusRouteIds,
                                              BusRouteNames),
                  raw     |-> raw,
                  batches |-> [b \in DOMAIN raw |-> Deduplicate(raw[b]).unique],
                  dropped |-> SumDropped(raw)]
  /\ UNCHANGED <<pc, current_date, api_idx, page_num, attempt, response_data,
                 daily_inserted, totals, api_call_counts, filter_stats,
                 seoul_route_ids, seoul_route_names, job_status, conn, store,
                 feed, faultsLeft, refreshCalls, failedDate, dd_src, dd_page>>
  /\ UNCHANGED <<EnvVars, HistPage, HistWrite, RunVars, ParVars>>

NextDedup == DedupPage

SpecDedup == InitDedup /\ [][NextDedup]_vars

(***************************************************************************)
(* run_parallel_etl: one task per (source, date) on a pool of max_workers  *)
(* threads that share the object of the run: self.conn, self.cur, the      *)
(* counters and the job records                                            *)
(***************************************************************************)
\* the futures list built by the submit loop, date by date, for the range
\* first_date..NumDates
SubmittedFutures(first_date) ==
  [i \in 1..(4 * (NumDates - first_date + 1)) |->
     <<SourceOrder[((i - 1) % 4) + 1], first_date + ((i - 1) \div 4)>>]

\* pos is the number of the request (or of the pooled write) the task makes
\* next, reg the counter value it has read for "+= 1" and not yet written
\* back, held the number of pooled connections it has taken and not put
\* back, writes the number of insert_*_batch calls its unit makes when none
\* of them raises
NewTask == [st |-> "queued", result |-> 0, failed |-> FALSE, got |-> "none",
            pos |-> 1, reg |-> None, held |-> 0, writes |-> 0]

TaskSrc(t) == futures[t][1]
TaskDate(t) == futures[t][2]

\* the pagination loop of process_apiN run to its end for one date, with an
\* upstream that answers every request at the first attempt; can_write tells
\* whether the connection the writer of s uses takes a statement
RECURSIVE UnitRun(_, _, _, _, _, _, _)
UnitRun(s, date, p, acc, ids, names, can_write) ==
  LET ans == Answer(s, p)
      acc1 == [acc EXCEPT !.calls = @ + 1]
  IN  IF EndsPagination([ok |-> ans.status = 200, items |-> ans.items])
      THEN acc1
      ELSE
        LET items == [i \in DOMAIN ans.items |-> ItemOf(s, ans.items[i])]
            kept == SeoulItems(s, items, ids, names)
            raises == TransformRaises(s, kept, ids, names)
            raw == RawBatches(s, SafeItems(s, kept, ids, names), date, ids,
                              names)
            batches == [b \in DOMAIN raw |-> Deduplicate(raw[b]).unique]
            ok == batches = <<>> \/ can_write
            counted == IF s = "API4" /\ ~ok
                       THEN Api4CountedOnFailure(items, ids, names)
                       ELSE IF s = "API4"
                       THEN Api4CountedOnRaise(items, ids, names)
                       ELSE items
            acc2 == [acc1 EXCEPT
                       !.stats = Counted(@, s, Len(counted),
                                   Len(SelectSeq(counted, LAMBDA it :
                                         is_seoul_route(ids, names, it.routeId,
                                           IF s = "API1" THEN it.routeNm
                                           ELSE ""))))]
        IN  IF ~ok THEN [acc2 EXCEPT !.wfail = TRUE, !.writes = @ + 1]
            ELSE IF raises
            THEN [acc2 EXCEPT !.table = UpsertAll(@, batches),
                              !.writes = @ + Len(batches)]
            ELSE IF CeilingReached(p + 1)
            THEN [acc2 EXCEPT !.table = UpsertAll(@, batches),
                              !.inserted = @ + SumLen(batches),
                              !.writes = @ + Len(batches)]
            ELSE UnitRun(s, date, p + 1,
                         [acc2 EXCEPT !.table = UpsertAll(@, batches),
                                      !.inserted = @ + SumLen(batches),
                                      !.writes = @ + Len(batches)],
                         ids, names, can_write)

\* what a timeout of future.result does to the tasks: nothing
AfterTimeoutCancel(ts, i) ==
  [t \in DOMAIN ts |-> IF ts[t].st = "queued"
                       THEN [ts[t] EXCEPT !.st = "cancelled"] ELSE ts[t]]
AfterTimeout(ts, i) == ts

\* a parallel run over the last two dates with a database that stays up, or
\* over the last date with a database that can go away
InitPar ==
  /\ \/ InitRun({CHOOSE f \in Feeds : f["API1"] = FeedChoices[1]},
                NumDates - 1, 0, 0)
     \/ InitRun({CHOOSE f \in Feeds : f["API1"] = FeedChoices[1]},
                NumDates, 0, MaxOutages)
  /\ api_keys = AllKeys
  /\ dd_src = "API1"
  /\ dd_page = <<>>
  /\ dd_out = NotRun

\* the number of insert_*_batch calls of the unit of source s for the date
\* when none of them raises
UnitWrites(s, date) ==
  UnitRun(s, date, 1,
          [table |-> {}, inserted |-> 0, calls |-> 0, writes |-> 0,
           stats |-> filter_stats, wfail |-> FALSE],
          BusRouteIds, BusRouteNames, TRUE).writes

\* connect_db, load_seoul_routes and the submit loop
ParStart ==
  /\ pc = "start"
  /\ IF dbUp
     THEN /\ conn' = "open"
          /\ seoul_route_ids' = BusRouteIds
          /\ seoul_route_names' = BusRouteNames
          /\ futures' = SubmittedFutures(current_date)
          /\ tasks' = [i \in DOMAIN SubmittedFutures(current_date) |->
                         [NewTask EXCEPT
                            !.writes =
                              UnitWrites(SubmittedFutures(current_date)[i][1],
                                         SubmittedFutures(current_date)[i][2])]]
          /\ fut_idx' = 1
          /\ timeoutsLeft' = MaxTimeouts
          /\ pc' = "par_collect"
     ELSE /\ pc' = "aborted"
          /\ UNCHANGED <<conn, seoul_route_ids, seoul_route_names, futures,
                         tasks, fut_idx, timeoutsLeft>>
  /\ UNCHANGED <<current_date, api_idx, page_num, attempt, response_data,
                 daily_inserted, totals, api_call_counts, filter_stats,
                 job_status, store, feed, faultsLeft, refreshCalls,
                 failedDate, connHolders, jobFinals>>
  /\ UNCHANGED <<EnvVars, HistPage, HistWrite, RunVars, PureVars>>

\* a worker takes the next task of the queue: process_apiN up to the
\* pagination loop
TStart(t) ==
  /\ pc = "par_collect"
  /\ tasks[t].st = "queued"
  /\ \A u \in 1..(t - 1) : tasks[u].st # "queued"
  /\ Cardinality({u \in DOMAIN tasks : tasks[u].st = "running"}) < max_workers
  /\ IF conn \in {"none", "closed"} /\ ~dbUp
     THEN \* connect_db raises, the FAILED status cannot be written, the
          \* wrapper returns 0
          /\ tasks' = [tasks EXCEPT ![t].st = "done", ![t].failed = TRUE]
          /\ UNCHANGED <<conn, job_status, connHolders, jobFinals>>
     ELSE LET c == IF conn \in {"none", "closed"} THEN "open" ELSE conn
          IN  /\ tasks' = [tasks EXCEPT ![t].st = "running"]
              /\ job_status' = IF c = "open"
                               THEN [job_status EXCEPT ![TaskSrc(t)] = "RUNNING"]
                               ELSE job_status
              /\ jobFinals' = IF c = "open"
                              THEN [jobFinals EXCEPT ![TaskSrc(t)] = 0]
                              ELSE jobFinals
              /\ conn' = LogOp(c)
              /\ connHolders' = connHolders \cup {t}
  /\ UNCHANGED <<pc, current_date, api_idx, page_num, attempt, response_data,
                 daily_inserted, totals, api_call_counts, filter_stats,
                 seoul_route_ids, seoul_route_names, store, feed, faultsLeft,
                 refreshCalls, failedDate, futures, fut_idx, timeoutsLeft>>
  /\ UNCHANGED <<EnvVars, HistPage, HistWrite, RunVars, PureVars>>

\* the pagination of the task, its SUCCESS status and its return; add_calls
\* and add_stats tell whether the requests and the filtered items of the task
\* are counted here
TEndWith(t, add_calls, add_stats) ==
  /\ pc = "par_collect"
  /\ tasks[t].st = "running"
  /\ \E s \in {TaskSrc(t)} :
     \E out \in {UnitRun(s, TaskDate(t), 1,
                         [table |-> store[s], inserted |-> 0, calls |-> 0,
                          writes |-> 0, stats |-> filter_stats,
                          wfail |-> FALSE],
                         seoul_route_ids, seoul_route_names,
                         IF s \in {"API1", "API2"}
                         THEN poolBroken = 0 /\ dbUp ELSE conn = "open")} :
       /\ store' = [store EXCEPT ![s] = out.table]
       /\ api_call_counts' = IF add_calls
                             THEN [api_call_counts EXCEPT ![s] = @ + out.calls]
                             ELSE api_call_counts
       /\ httpAttempts' = IF add_calls
                          THEN [httpAttempts EXCEPT ![s] = @ + out.calls]
                          ELSE httpAttempts
       /\ filter_stats' = IF add_stats THEN out.stats ELSE filter_stats
       /\ poolBroken' = IF s \in {"API1", "API2"} /\ out.wfail /\ poolBroken > 0
                        THEN poolBroken - 1 ELSE poolBroken
       /\ job_status' = IF conn = "open"
                        THEN [job_status EXCEPT ![s] = "SUCCESS"]
                        ELSE job_status
       /\ jobFinals' = IF conn = "open"
                       THEN [jobFinals EXCEPT ![s] = @ + 1] ELSE jobFinals
       /\ conn' = LogOp(conn)
       /\ tasks' = [tasks EXCEPT ![t].st = "done", ![t].result = out.inserted]
       /\ connHolders' = connHolders \ {t}
  /\ UNCHANGED <<pc, current_date, api_idx, page_num, attempt, response_data,
                 daily_inserted, totals, seoul_route_ids, seoul_route_names,
                 feed, faultsLeft, refreshCalls, failedDate, dbUp, outagesLeft,
                 logFaultsLeft, futures, fut_idx, timeoutsLeft>>
  /\ UNCHANGED <<pageAttempts, waits, lastStatus, pagesRequested, sawEnd>>
  /\ UNCHANGED <<HistWrite, RunVars, PureVars>>

TEnd(t, add_calls) == TEndWith(t, add_calls, TRUE)

TFinish(t) == TEnd(t, TRUE)

\* future.result returns: the count goes to the total of the source
Collect ==
  /\ pc = "par_collect"
  /\ fut_idx <= Len(futures)
  /\ tasks[fut_idx].st = "done"
  /\ totals' = [totals EXCEPT ![TaskSrc(fut_idx)] = @ + tasks[fut_idx].result]
  /\ tasks' = [tasks EXCEPT ![fut_idx].got = "added"]
  /\ fut_idx' = fut_idx + 1
  /\ UNCHANGED <<pc, current_date, api_idx, page_num, attempt, response_data,
                 daily_inserted, api_call_counts, filter_stats,
                 seoul_route_ids, seoul_route_names, job_status, conn, store,
                 feed, faultsLeft, refreshCalls, failedDate, futures,
                 timeoutsLeft, connHolders, jobFinals>>
  /\ UNCHANGED <<EnvVars, HistPage, HistWrite, RunVars, PureVars>>

\* future.result(timeout=600) raises TimeoutError: logged, nothing added
Timeout ==
  /\ pc = "par_collect"
  /\ fut_idx <= Len(futures)
  /\ tasks[fut_idx].st # "done"
  /\ timeoutsLeft > 0
  /\ timeoutsLeft' = timeoutsLeft - 1
  /\ tasks' = [AfterTimeout(tasks, fut_idx) EXCEPT ![fut_idx].got = "timeout"]
  /\ fut_idx' = fut_idx + 1
  /\ UNCHANGED <<pc, current_date, api_idx, page_num, attempt, response_data,
                 daily_inserted, totals, api_call_counts, filter_stats,
                 seoul_route_ids, seoul_route_names, job_status, conn, store,
                 feed, faultsLeft, refreshCalls, failedDate, futures,
                 connHolders, jobFinals>>
  /\ UNCHANGED <<EnvVars, HistPage, HistWrite, RunVars, PureVars>>

\* leaving "with ThreadPoolExecutor(...) as executor" is
\* executor.shutdown(wait=True): it returns when every submitted task has
\* ended, whatever future.result has reported about it
ExecutorLeftNoWait ==
  \A t \in DOMAIN tasks :
    tasks[t].got = "timeout" \/ tasks[t].st \notin {"queued", "running"}
ExecutorLeft ==
  \A t \in DOMAIN tasks : tasks[t].st \notin {"queued", "running"}

\* the executor is left when every task has ended; summary, refresh, close_db
ParRefresh ==
  /\ pc = "par_collect"
  /\ fut_idx > Len(futures)
  /\ ExecutorLeft
  /\ refreshCalls' = refreshCalls + 1
  /\ mv_ran' = RefreshRun(conn).ran
  /\ conn' = "closed"
  /\ pc' = "done"
  /\ UNCHANGED <<current_date, api_idx, page_num, attempt, response_data,
                 daily_inserted, totals, api_call_counts, filter_stats,
                 seoul_route_ids, seoul_route_names, job_status, store, feed,
                 faultsLeft, failedDate>>
  /\ UNCHANGED <<EnvVars, HistPage, HistWrite, runNo, firstStore, api_keys,
                 PureVars, ParVars>>

TaskStep == \E t \in DOMAIN tasks : TStart(t) \/ TFinish(t)

NextPar == \/ ParStart \/ TaskStep \/ Collect \/ Timeout \/ ParRefresh
           \/ DbOutage \/ DbRecover

SpecPar == InitPar /\ [][NextPar]_vars

(***************************************************************************)
(* The workers of the parallel run at the grain of the counter update      *)
(* "self.api_call_counts[api_name] += 1": a read of the entry and a write  *)
(* of the read value plus one, between which another worker can run.  The  *)
(* updates are followed at this grain for the tasks of one source, the     *)
(* tasks of the other sources count their requests when they end.          *)
(***************************************************************************)
RaceSrc == "API1"

\* the number of requests the unit of task t makes
UnitCalls(t) ==
  UnitRun(TaskSrc(t), TaskDate(t), 1,
          [table |-> {}, inserted |-> 0, calls |-> 0, writes |-> 0,
           stats |-> filter_stats, wfail |-> FALSE],
          seoul_route_ids, seoul_route_names, TRUE).calls

\* the value written back by "+= 1"
Stored(counts, s, reg) == reg + 1

InitRace ==
  /\ InitRun({CHOOSE f \in Feeds : f[RaceSrc] = FeedChoices[4]},
             NumDates - 1, 0, 0)
  /\ api_keys = AllKeys
  /\ dd_src = "API1"
  /\ dd_page = <<>>
  /\ dd_out = NotRun

\* requests.get has returned; the entry of the counter is read
CountLoad(t) ==
  /\ pc = "par_collect"
  /\ tasks[t].st = "running"
  /\ TaskSrc(t) = RaceSrc
  /\ tasks[t].pos <= UnitCalls(t)
  /\ tasks[t].reg = None
  /\ tasks' = [tasks EXCEPT ![t].reg = api_call_counts[TaskSrc(t)]]
  /\ UNCHANGED <<pc, current_date, api_idx, page_num, attempt, response_data,
                 daily_inserted, totals, api_call_counts, filter_stats,
                 seoul_route_ids, seoul_route_names, job_status, conn, store,
                 feed, faultsLeft, refreshCalls, failedDate, futures, fut_idx,
                 timeoutsLeft, connHolders, jobFinals>>
  /\ UNCHANGED <<EnvVars, HistPage, HistWrite, RunVars, PureVars>>

\* the entry of the counter is written
CountStore(t) ==
  /\ pc = "par_collect"
  /\ tasks[t].st = "running"
  /\ tasks[t].reg # None
  /\ api_call_counts' =
       [api_call_counts EXCEPT
          ![TaskSrc(t)] = Stored(api_call_counts, TaskSrc(t), tasks[t].reg)]
  /\ httpAttempts' = [httpAttempts EXCEPT ![TaskSrc(t)] = @ + 1]
  /\ tasks' = [tasks EXCEPT ![t].reg = None, ![t].pos = @ + 1]
  /\ UNCHANGED <<pc, current_date, api_idx, page_num, attempt, response_data,
                 daily_inserted, totals, filter_stats, seoul_route_ids,
                 seoul_route_names, job_status, conn, store, feed, faultsLeft,
                 refreshCalls, failedDate, futures, fut_idx, timeoutsLeft,
                 connHolders, jobFinals>>
  /\ UNCHANGED <<pageAttempts, waits, lastStatus, pagesRequested, sawEnd>>
  /\ UNCHANGED <<EnvVars, HistWrite, RunVars, PureVars>>

\* the last request of the unit is counted: the rows and the status
CountedEnd(t) ==
  /\ TaskSrc(t) = RaceSrc
  /\ tasks[t].pos > UnitCalls(t)
  /\ TEnd(t, FALSE)

OtherEnd(t) ==
  /\ TaskSrc(t) # RaceSrc
  /\ TEnd(t, TRUE)

RaceStep ==
  \E t \in DOMAIN tasks :
    TStart(t) \/ CountLoad(t) \/ CountStore(t) \/ CountedEnd(t)
      \/ OtherEnd(t)

NextRace == ParStart \/ RaceStep

SpecRace == InitRace /\ [][NextRace]_vars

(***************************************************************************)
(* A run whose environment lacks the key of some sources: os.getenv gives  *)
(* None and __init__ stores it                                             *)
(***************************************************************************)
InitKeys ==
  /\ InitRun(Feeds, NumDates, 0, 0)
  /\ api_keys \in [Sources -> BOOLEAN]
  /\ dd_src = "API1"
  /\ dd_page = <<>>
  /\ dd_out = NotRun

SpecKeys == InitKeys /\ [][Next]_vars

(***************************************************************************)
(* A run over the last date against an upstream whose pages hold an item   *)
(* with a metric that int() rejects ("m") or an item without its station   *)
(* field ("n")                                                             *)
(***************************************************************************)
BadChoices ==
  << [pages |-> << <<"a", "m">>, <<"b">> >>, tail |-> "empty"],
     [pages |-> << <<"b", "n">> >>, tail |-> "empty"],
     [pages |-> << <<"a", "b", "m">>, <<"a">> >>, tail |-> "sentinel"],
     [pages |-> << <<"a">> >>, tail |-> "sentinel"] >>

BadFeeds == FeedsOf(BadChoices)

InitBad == InitWith(BadFeeds, NumDates, 0, 0)

SpecBad == InitBad /\ [][Next]_vars

(***************************************************************************)
(* The workers of the parallel run at the grain of the pooled writes of    *)
(* API1 and API2: get_db_connection takes a connection of the pool, the    *)
(* insert commits or raises, and the connection is put back                *)
(***************************************************************************)
PooledSources == {"API1", "API2"}

\* the connections a worker holds when it leaves get_db_connection
AfterWriteLeak(held, committed) == IF committed THEN held - 1 ELSE held
AfterWrite(held, committed) == held - 1

\* pool._used
CheckedOut ==
  LET RECURSIVE Sum(_)
      Sum(n) == IF n = 0 THEN 0 ELSE Sum(n - 1) + tasks[n].held
  IN  Sum(Len(tasks))

InitPool ==
  /\ \/ InitRun({CHOOSE f \in Feeds : f["API1"] = FeedChoices[1]},
                NumDates - 1, 0, 0)
     \/ InitRun({CHOOSE f \in Feeds : f["API1"] = FeedChoices[1]},
                NumDates, 0, MaxOutages)
  /\ api_keys = AllKeys
  /\ dd_src = "API1"
  /\ dd_page = <<>>
  /\ dd_out = NotRun

\* "with self.get_db_connection() as (conn, cur)": getconn
PoolGet(t) ==
  /\ pc = "par_collect"
  /\ tasks[t].st = "running"
  /\ TaskSrc(t) \in PooledSources
  /\ tasks[t].held = 0
  /\ tasks[t].pos <= tasks[t].writes
  /\ tasks' = [tasks EXCEPT ![t].held = @ + 1]
  /\ UNCHANGED <<pc, current_date, api_idx, page_num, attempt, response_data,
                 daily_inserted, totals, api_call_counts, filter_stats,
                 seoul_route_ids, seoul_route_names, job_status, conn, store,
                 feed, faultsLeft, refreshCalls, failedDate, futures, fut_idx,
                 timeoutsLeft, connHolders, jobFinals>>
  /\ UNCHANGED <<EnvVars, HistPage, HistWrite, RunVars, PureVars>>

\* execute_values and commit, or the exception, and the finally clause; a
\* write that raises ends the pagination of the unit
PoolPut(t) ==
  /\ pc = "par_collect"
  /\ tasks[t].st = "running"
  /\ tasks[t].held > 0
  /\ \E committed \in {poolBroken = 0 /\ dbUp} :
       tasks' = [tasks EXCEPT
                   ![t].held = AfterWrite(@, committed),
                   ![t].pos = IF committed THEN @ + 1
                              ELSE tasks[t].writes + 1]
  /\ UNCHANGED <<pc, current_date, api_idx, page_num, attempt, response_data,
                 daily_inserted, totals, api_call_counts, filter_stats,
                 seoul_route_ids, seoul_route_names, job_status, conn, store,
                 feed, faultsLeft, refreshCalls, failedDate, futures, fut_idx,
                 timeoutsLeft, connHolders, jobFinals>>
  /\ UNCHANGED <<EnvVars, HistPage, HistWrite, RunVars, PureVars>>

\* the unit of a pooled source ends after its last write
PooledEnd(t) ==
  /\ TaskSrc(t) \in PooledSources
  /\ tasks[t].pos > tasks[t].writes
  /\ TEnd(t, TRUE)

\* the units of API3 and API4 write on self.conn
UnpooledEnd(t) ==
  /\ TaskSrc(t) \notin PooledSources
  /\ TEnd(t, TRUE)

PoolStep ==
  \E t \in DOMAIN tasks :
    TStart(t) \/ PoolGet(t) \/ PoolPut(t) \/ PooledEnd(t) \/ UnpooledEnd(t)

NextPool == ParStart \/ PoolStep \/ DbOutage \/ DbRecover

SpecPool == InitPool /\ [][NextPool]_vars

(***************************************************************************)
(* The filter counters under threads: "self.filter_stats[...][...] += 1"   *)
(* is a load and a store, and tasks of the same source run at once.  The   *)
(* tasks of RaceSrc take one step per load and per store.                  *)
(***************************************************************************)
\* the "+= 1" statements of the filter loop over the items of a page
RECURSIVE PageIncrements(_, _, _)
PageIncrements(items, ids, names) ==
  IF items = <<>> THEN <<>>
  ELSE <<"total_fetched">>
       \o (IF is_seoul_route(ids, names, Head(items).routeId,
                             Head(items).routeNm)
           THEN <<"seoul_filtered">> ELSE <<>>)
       \o PageIncrements(Tail(items), ids, names)

\* the "+= 1" statements of the unit of RaceSrc for the date, page by page
RECURSIVE UnitIncrements(_, _)
UnitIncrements(date, p) ==
  LET ans == Answer(RaceSrc, p)
      items == [i \in DOMAIN ans.items |-> ItemOf(RaceSrc, ans.items[i])]
      kept == SeoulItems(RaceSrc, items, BusRouteIds, BusRouteNames)
      incs == PageIncrements(items, BusRouteIds, BusRouteNames)
  IN  IF EndsPagination([ok |-> ans.status = 200, items |-> ans.items])
      THEN <<>>
      ELSE IF \/ TransformRaises(RaceSrc, kept, BusRouteIds, BusRouteNames)
              \/ CeilingReached(p + 1)
      THEN incs
      ELSE incs \o UnitIncrements(date, p + 1)

InitStat ==
  /\ InitRun({CHOOSE f \in Feeds : f[RaceSrc] = FeedChoices[2]},
             NumDates - 1, 0, 0)
  /\ api_keys = AllKeys
  /\ dd_src = "API1"
  /\ dd_page = <<>>
  /\ dd_out = NotRun

\* the entry of the counter is read
StatLoad(t) ==
  /\ pc = "par_collect"
  /\ tasks[t].st = "running"
  /\ TaskSrc(t) = RaceSrc
  /\ tasks[t].pos <= Len(UnitIncrements(TaskDate(t), 1))
  /\ tasks[t].reg = None
  /\ tasks' = [tasks EXCEPT ![t].reg =
                 filter_stats[RaceSrc][UnitIncrements(TaskDate(t),
                                                      1)[tasks[t].pos]]]
  /\ UNCHANGED <<pc, current_date, api_idx, page_num, attempt, response_data,
                 daily_inserted, totals, api_call_counts, filter_stats,
                 seoul_route_ids, seoul_route_names, job_status, conn, store,
                 feed, faultsLeft, refreshCalls, failedDate, futures, fut_idx,
                 timeoutsLeft, connHolders, jobFinals>>
  /\ UNCHANGED <<EnvVars, HistPage, HistWrite, RunVars, PureVars>>

\* the entry of the counter is written
StatStore(t) ==
  /\ pc = "par_collect"
  /\ tasks[t].st = "running"
  /\ TaskSrc(t) = RaceSrc
  /\ tasks[t].reg # None
  /\ filter_stats' =
       [filter_stats EXCEPT
          ![RaceSrc][UnitIncrements(TaskDate(t), 1)[tasks[t].pos]] =
             Stored(filter_stats, RaceSrc, tasks[t].reg)]
  /\ tasks' = [tasks EXCEPT ![t].reg = None, ![t].pos = @ + 1]
  /\ UNCHANGED <<pc, current_date, api_idx, page_num, attempt, response_data,
                 daily_inserted, totals, api_call_counts, seoul_route_ids,
                 seoul_route_names, job_status, conn, store, feed, faultsLeft,
                 refreshCalls, failedDate, futures, fut_idx, timeoutsLeft,
                 connHolders, jobFinals>>
  /\ UNCHANGED <<EnvVars, HistPage, HistWrite, RunVars, PureVars>>

\* the last item of the unit is counted: the rows and the status
StatCountedEnd(t) ==
  /\ TaskSrc(t) = RaceSrc
  /\ tasks[t].pos > Len(UnitIncrements(TaskDate(t), 1))
  /\ TEndWith(t, TRUE, FALSE)

StatStep ==
  \E t \in DOMAIN tasks :
    TStart(t) \/ StatLoad(t) \/ StatStore(t) \/ StatCountedEnd(t)
      \/ OtherEnd(t)

NextStat == ParStart \/ StatStep

SpecStat == InitStat /\ [][NextStat]_vars

(***************************************************************************)
(* C1: in sequential mode a failed unit is caught and the day loop goes on *)
(* to the later dates, so that the loop terminates whatever fails.  Stated *)
(* on the step that handles the failure: it leaves the failed date.        *)
(***************************************************************************)
C1_FailedDayIsLeft ==
  [][(pc = "day_failed" /\ pc' = "day_loop") => current_date' > current_date]_vars

(***************************************************************************)
(* C2: every run that got past start-up calls refresh_materialized_views   *)
(* exactly once, after the last unit, also when units failed.              *)
(***************************************************************************)
C2_RefreshExactlyOnce ==
  /\ [](refreshCalls <= 1)
  /\ [](refreshCalls = 1 => current_date > NumDates)
  /\ (pc = "day_loop") ~> (refreshCalls = 1)

(***************************************************************************)
(* C3 as claimed: a page answered with status 500 has had exactly one HTTP *)
(* attempt and no backoff sleep.                                           *)
(***************************************************************************)
C3_OneAttemptOnSentinel ==
  lastStatus = "500" => (pageAttempts = 1 /\ waits = <<>>)

(***************************************************************************)
(* C3 amended: the attempt answered with status 500 is the last of its     *)
(* page (the only one when it is the first): make_api_request returns no   *)
(* data, no sleep and no attempt follows the answer, and the pagination of *)
(* the unit ends with the rows of the earlier pages kept.                  *)
(***************************************************************************)
C3_SentinelEndsPage ==
  /\ [](lastStatus = "500" =>
          /\ pc # "request"
          /\ response_data = NoData
          /\ Len(waits) = pageAttempts - 1
          /\ attempt = pageAttempts - 1)
  /\ [][(lastStatus = "500" /\ pc = "page") =>
          /\ pc' = "unit_end"
          /\ store' = store
          /\ daily_inserted' = daily_inserted
          /\ httpAttempts' = httpAttempts]_vars
  /\ [][(lastStatus = "500" /\ pc = "unit_end") =>
          totals'[Src] = totals[Src] + daily_inserted]_vars

C3_Witness ==
  /\ lastStatus = "500"
  /\ pc = "unit_end"
  /\ pageAttempts = 1
  /\ page_num > 1
  /\ daily_inserted > 0
  /\ store[Src] # {}

(***************************************************************************)
(* C4 as claimed: a page whose attempts all end in a non-sentinel error is *)
(* retried exactly max_retries times before it is abandoned.               *)
(***************************************************************************)
C4_RetriedMaxRetriesTimes ==
  (pc = "page" /\ lastStatus \in {"503", "exception"}) =>
     pageAttempts - 1 = max_retries

(***************************************************************************)
(* C4 amended: such a page gets exactly max_retries attempts (the first    *)
(* and max_retries - 1 retries), the waits between consecutive attempts    *)
(* are 2^0, 2^1, ... and never decrease, and then the page is abandoned.   *)
(***************************************************************************)
C4_AttemptedMaxRetriesTimes ==
  (pc = "page" /\ lastStatus \in {"503", "exception"}) =>
     /\ pageAttempts = max_retries
     /\ waits = [i \in 1..(max_retries - 1) |-> 2 ^ (i - 1)]
     /\ \A i \in 1..(Len(waits) - 1) : waits[i] <= waits[i + 1]
     /\ response_data = NoData

C4_Witness ==
  /\ pc = "page"
  /\ lastStatus = "exception"
  /\ pageAttempts = max_retries
  /\ Len(waits) = 2

(***************************************************************************)
(* C5: the ApiCallCounter of a source equals the number of HTTP attempts   *)
(* made for it, whatever their outcome.                                    *)
(***************************************************************************)
C5_CounterCountsAttempts ==
  \A s \in Sources : api_call_counts[s] = httpAttempts[s]

(***************************************************************************)
(* C6: once a page of a unit came back empty or with the sentinel, no      *)
(* further page of the unit is requested and the unit ends at once, below  *)
(* the page ceiling.                                                       *)
(***************************************************************************)
C6_EndOfDataStopsPaging ==
  /\ [](sawEnd => (pc # "request" /\ page_num <= PageCeiling))
  /\ [][sawEnd => httpAttempts' = httpAttempts]_vars
  /\ [][(sawEnd /\ pc = "page") => pc' = "unit_end"]_vars

C6_Witness ==
  /\ sawEnd
  /\ lastStatus = "200"
  /\ pc = "unit_end"
  /\ page_num = 3
  /\ daily_inserted > 0

(***************************************************************************)
(* The run over an upstream that never runs dry: every source answers      *)
(* every page with rows, the database and the network work                 *)
(***************************************************************************)
InitCeiling == InitWith(EndlessFeeds, NumDates, 0, 0)

SpecCeiling == InitCeiling /\ [][Next]_vars /\ WF_vars(Next)

\* C7: against an upstream that never returns an empty page or the sentinel,
\* a unit of any of the four sources requests at most PageCeiling (100) pages,
\* page_num never passes PageCeiling + 1, and the pagination loop terminates:
\* a unit that requests a page reaches its end
C7_PageCeilingHolds ==
  /\ [](pagesRequested <= PageCeiling)
  /\ [](page_num <= PageCeiling + 1)
  /\ [](sawEnd = FALSE)
  /\ \A i \in 1..4 :
       (pc = "request" /\ api_idx = i) ~> (pc = "unit_end" /\ api_idx = i)

\* a unit stopped by the ceiling: 100 pages requested, no end of data seen
C7_Witness ==
  /\ pc = "unit_end"
  /\ pagesRequested = PageCeiling
  /\ page_num = PageCeiling + 1
  /\ ~sawEnd
  /\ Src = "API4"
  /\ store["API4"] # {}

(***************************************************************************)
(* C8: the rows that reach a writer.  The statement of the claim is that   *)
(* over a whole run no key is handed to a writer twice, chunks and pages   *)
(* included; what the code gives is uniqueness inside every batch.         *)
(***************************************************************************)
\* C8 as stated: over the whole run no two rows handed to a writer after
\* deduplication share a composite key, across chunks and pages too
C8_NoKeyHandedTwice == ~rehanded

\* C8: inside every batch handed to a writer after deduplication no two rows
\* share a composite key, and no fact table holds two rows with one key
C8_BatchKeysUnique ==
  /\ ~batchDup
  /\ \A s \in Sources : \A r1, r2 \in store[s] : r1.key = r2.key => r1 = r2

\* a page whose duplicate check dropped rows has been written, and a key has
\* reached the writer a second time from another chunk or page
C8_Witness ==
  /\ pc = "request"
  /\ page_num = 2
  /\ lastDropped > 0
  /\ rehanded
  /\ ~batchDup
  /\ store[Src] # {}

(***************************************************************************)
(* C9: idempotence of a run                                                *)
(***************************************************************************)
\* C9: when the ingestion of the same sources and dates is run a second time
\* against the unchanged upstream, the second run adds no row at any time,
\* and at its end every fact table holds the keys and values it held at the
\* end of the first run
C9_RerunChangesNothing ==
  /\ runNo = 2 =>
       \A s \in Sources : StoredKeys(s, store[s]) = StoredKeys(s, firstStore[s])
  /\ (runNo = 2 /\ pc = "done") => store = firstStore

\* the second run is over, it has written pages with rows into tables that
\* held those rows already
C9_Witness ==
  /\ runNo = 2
  /\ pc = "done"
  /\ rehanded
  /\ \E s \in Sources : \E r \in store[s] : r.val > 0
  /\ store = firstStore
  /\ Cardinality({s \in Sources : store[s] # {}}) >= 2

(***************************************************************************)
(* C10: the duplicate check.  The first half of the claim speaks of one    *)
(* batch, the second of one fetched page; a page is cut into chunks and    *)
(* every chunk is checked on its own.                                      *)
(***************************************************************************)
\* C10 as stated, for a fetched page: a key that appears twice in the page
\* ends as one row handed to the writer, and the dropped count reported for
\* the page is the number of repeats in the page (1 for one key met twice)
C10_PageRepeatsDropped ==
  dd_out.done =>
    /\ \A b, c \in DOMAIN dd_out.batches :
         b < c => KeysOf(dd_src, dd_out.batches[b]) \cap
                  KeysOf(dd_src, dd_out.batches[c]) = {}
    /\ dd_out.dropped =
         SumLen(dd_out.raw) -
         Cardinality(UNION {KeysOf(dd_src, dd_out.raw[b]) :
                              b \in DOMAIN dd_out.raw})

\* C10: the deduplication of one batch (a chunk of a page; for API3 the whole
\* page) yields exactly the first occurrence of every composite key, in
\* input order; the reported number of dropped rows is input size minus
\* output size; a key that appears twice in one batch ends as one row of the
\* output, and a batch whose only repeat is one key met twice reports 1
C10_BatchKeepsFirstOccurrences ==
  dd_out.done =>
    /\ Len(dd_out.batches) = Len(dd_out.raw)
    /\ dd_out.dropped = SumLen(dd_out.raw) - SumLen(dd_out.batches)
    /\ \A b \in DOMAIN dd_out.raw :
         LET in == dd_out.raw[b]
             out == dd_out.batches[b]
             firsts == {i \in DOMAIN in :
                          \A j \in 1..(i - 1) : in[j].key # in[i].key}
             at == [n \in DOMAIN out |->
                      IF \E i \in firsts : in[i] = out[n]
                      THEN CHOOSE i \in firsts : in[i] = out[n] ELSE 0]
         IN  /\ Len(out) = Cardinality(firsts)
             /\ \A n \in DOMAIN out :
                  at[n] # 0 /\ (n > 1 => at[n - 1] < at[n])
             /\ \A i, j \in DOMAIN in :
                  (i < j /\ in[i].key = in[j].key) =>
                     Cardinality({n \in DOMAIN out :
                                    out[n].key = in[i].key}) = 1
             /\ Len(in) = Cardinality(KeysOf(dd_src, in)) + 1 =>
                  Len(in) - Len(out) = 1

\* a page of API3 with one key twice and different values: one batch, the
\* first row kept, one row reported as dropped
C10_Witness ==
  /\ dd_out.done
  /\ dd_src = "API3"
  /\ dd_page = <<"a", "a2">>
  /\ dd_out.raw[1][1] # dd_out.raw[1][2]
  /\ dd_out.batches = << <<dd_out.raw[1][1]>> >>
  /\ dd_out.dropped = 1

(***************************************************************************)
(* C11: the expansion of an item into 24 tall rows                         *)
(***************************************************************************)
\* C11: every item of API1, API2 or API4 that reaches the transformer with
\* numeric or absent hour columns yields exactly 24 tall rows, one for each
\* hour 0..23 in turn and none twice, with the item's date, route id and
\* node id(s); the row of hour h carries the item's column of hour h (0 for
\* an absent column of API1 and API4, null for API2)
C11_ItemYields24Rows ==
  (dd_out.done /\ dd_src # "API3") =>
    LET inScope(t) == \/ TagRoute(t) \in BusRouteIds
                      \/ dd_src = "API1" /\ TagRouteNm(t) \in BusRouteNames
        reach == {j \in DOMAIN dd_page : inScope(dd_page[j])}
        expected(t, h) ==
          [key |-> IF dd_src = "API1"
                   THEN <<1, TagRoute(t), TagNode(t), h>>
                   ELSE <<1, TagRoute(t), TagNode(t), "STA009", h>>,
           val |-> IF TagCols(t)[h] >= 0 THEN TagCols(t)[h]
                   ELSE IF dd_src = "API2" THEN None ELSE 0]
        rows == {<<b, i>> \in (DOMAIN dd_out.raw) \X (1..(MaxPageLen * NumHours)) :
                   i <= Len(dd_out.raw[b])}
    IN  /\ \A b \in DOMAIN dd_out.raw :
             /\ Len(dd_out.raw[b]) % 24 = 0
             /\ \A i \in DOMAIN dd_out.raw[b] :
                  /\ dd_out.raw[b][i].key[Len(dd_out.raw[b][i].key)]
                       = (i - 1) % 24
                  /\ \E j \in reach :
                       dd_out.raw[b][i] = expected(dd_page[j], (i - 1) % 24)
        /\ ~dd_out.raised =>
             /\ SumLen(dd_out.raw) = 24 * Cardinality(reach)
             /\ \A j \in reach : \A h \in Hours :
                  Cardinality({r \in rows : dd_out.raw[r[1]][r[2]] =
                                 expected(dd_page[j], h)})
                  = Cardinality({k \in reach : expected(dd_page[k], h) =
                                   expected(dd_page[j], h)})

\* the item of the example: ride 42 at hour 8, 10 at hour 9, 0 elsewhere
C11_Witness ==
  /\ dd_out.done
  /\ dd_src = "API1"
  /\ dd_page = <<"a">>
  /\ Len(dd_out.raw) = 1
  /\ Len(dd_out.raw[1]) = 24
  /\ dd_out.raw[1][9] = [key |-> <<1, "100100113", "STA001", 8>>, val |-> 42]
  /\ dd_out.raw[1][10] = [key |-> <<1, "100100113", "STA001", 9>>, val |-> 10]
  /\ dd_out.raw[1][1].val = 0

(***************************************************************************)
(* C12: the nullable passenger count of API2                               *)
(***************************************************************************)
\* C12: for API2 the tall row of hour h has passenger_count null when the
\* item's hour column is absent and the integer v when the column holds the
\* integer v; a present 0 stays 0
C12_AbsentIsNullZeroIsZero ==
  (dd_out.done /\ dd_src = "API2") =>
    LET reach == SelectSeq(dd_page, LAMBDA t : TagRoute(t) \in BusRouteIds)
    IN  /\ SumLen(dd_out.raw) = 24 * Len(reach)
        /\ \A b \in DOMAIN dd_out.raw : \A i \in DOMAIN dd_out.raw[b] :
             LET t == reach[(b - 1) * chunk_size + ((i - 1) \div 24) + 1]
                 col == TagCols(t)[(i - 1) % 24]
                 row == dd_out.raw[b][i]
             IN  /\ col = None => row.val = None
                 /\ col >= 0 => row.val = col
                 /\ row.val = 0 => col = 0

\* an item with a present 0 at hour 8 and no column for hour 0
C12_Witness ==
  /\ dd_out.done
  /\ dd_src = "API2"
  /\ dd_page = <<"b">>
  /\ TagCols("b")[8] = 0
  /\ dd_out.raw[1][9].val = 0
  /\ TagCols("b")[0] = None
  /\ dd_out.raw[1][1].val = None
  /\ dd_out.batches[1][1].val = None

(***************************************************************************)
(* C13: the route filter of API1 and API2                                  *)
(***************************************************************************)
\* C13: no row in the tables of API1 and API2 comes from an item that is
\* out of scope, where an item is in scope exactly when its route id is in
\* the loaded id set or, for API1 (the only one to supply a name), its route
\* name is in the loaded name set
C13_OnlyInScopeRowsStored ==
  \A s \in {"API1", "API2"} : \A r \in store[s] :
     \E t \in Tags :
        /\ r.key[2] = TagRoute(t)
        /\ r.key[3] = TagNode(t)
        /\ \/ TagRoute(t) \in BusRouteIds
           \/ s = "API1" /\ TagRouteNm(t) \in BusRouteNames

\* API1 has dropped an item and has written the rows of a route that is in
\* scope by its name only
C13_Witness ==
  /\ filter_stats["API1"].seoul_filtered < filter_stats["API1"].total_fetched
  /\ \E r \in store["API1"] : r.key[2] = "GG2"
  /\ \A r \in store["API1"] : r.key[2] # "GG1"

(***************************************************************************)
(* C14: the status record of a job is never SUCCESS or FAILED while a unit *)
(* of that record is still running, and once SUCCESS or FAILED has been    *)
(* written it is not written again before a unit start has written         *)
(* RUNNING.  The parallel run keeps one record per source and runs the     *)
(* units of two dates of a source at the same time.                        *)
(***************************************************************************)
C14_FinalOnlyAfterLastUnit ==
  /\ \A t \in DOMAIN tasks :
       tasks[t].st = "running" =>
         job_status[TaskSrc(t)] \notin {"SUCCESS", "FAILED"}
  /\ \A s \in Sources : jobFinals[s] <= 1

(***************************************************************************)
(* C16: in parallel mode no connection is used by two tasks: at any time   *)
(* at most one running task has written on the connection self.conn of the *)
(* run.  Every task writes its status on self.conn, and the tasks of API3  *)
(* and API4 write their rows on it.                                        *)
(***************************************************************************)
C16_ConnectionHeldByOneTask == Cardinality(connHolders) <= 1

\* the sum of the counts that the result loop has added for source s among
\* the first n futures
RECURSIVE AddedSum(_, _)
AddedSum(s, n) ==
  IF n = 0 THEN 0
  ELSE AddedSum(s, n - 1)
         + (IF TaskSrc(n) = s /\ tasks[n].got = "added" THEN tasks[n].result
            ELSE 0)

(***************************************************************************)
(* C17: the parallel run submits exactly one task for every (source, date) *)
(* of the date range; the total of a source is the sum of the counts       *)
(* returned by its tasks whose result was collected, a task that timed out *)
(* adds nothing and a task that failed adds 0; and when the run is over    *)
(* every submitted task has run to its end, whatever happened to the       *)
(* others.                                                                 *)
(***************************************************************************)
C17_OneTaskPerUnitAllCounted ==
  futures # <<>> =>
    /\ \A s \in Sources : \A d \in current_date..NumDates :
         Cardinality({i \in DOMAIN futures : futures[i] = <<s, d>>}) = 1
    /\ Len(futures) = 4 * (NumDates - current_date + 1)
    /\ \A s \in Sources : totals[s] = AddedSum(s, Len(futures))
    /\ \A t \in DOMAIN tasks :
         /\ tasks[t].failed => tasks[t].result = 0
         /\ t < fut_idx => tasks[t].got \in {"added", "timeout"}
         /\ tasks[t].got = "added" => tasks[t].st = "done"
    /\ pc = "done" =>
         \A t \in DOMAIN tasks :
           /\ tasks[t].st = "done"
           /\ tasks[t].got \in {"added", "timeout"}

C17_Witness ==
  /\ pc = "done"
  /\ \E t \in DOMAIN tasks : tasks[t].got = "timeout"
  /\ \E t \in DOMAIN tasks : tasks[t].failed /\ tasks[t].got = "added"
  /\ \E t, u \in DOMAIN tasks :
       /\ t < u
       /\ tasks[t].got = "timeout" \/ tasks[t].failed
       /\ tasks[u].got = "added"
       /\ tasks[u].result > 0
       /\ totals[TaskSrc(u)] >= tasks[u].result

(***************************************************************************)
(* C15: in parallel mode no increment of a counter is lost: once all tasks *)
(* have finished, the call counter of every source equals the number of    *)
(* increments the tasks have performed on it.  The increment is a read and *)
(* a write with no lock around them.                                       *)
(***************************************************************************)
C15_NoIncrementLost ==
  (tasks # <<>> /\ \A t \in DOMAIN tasks : tasks[t].st = "done") =>
    \A s \in Sources : api_call_counts[s] = httpAttempts[s]

(***************************************************************************)
(* C18: when the key of a source is missing the run aborts before any unit *)
(* starts: no HTTP request is made and no fact row is written.  The keys   *)
(* are read with os.getenv and never looked at before they are sent.       *)
(***************************************************************************)
C18_MissingKeyNoRequestNoRow ==
  (\E s \in Sources : ~api_keys[s]) =>
    /\ \A s \in Sources : httpAttempts[s] = 0
    /\ \A s \in Sources : store[s] = {}

(***************************************************************************)
(* C19: when an item of a fetched page is malformed (a field is missing or *)
(* a metric is not an integer) only that item is skipped: at the end of    *)
(* the run no row of a malformed item is stored, and every well-formed     *)
(* item in scope of every page of the feed, the pages after the one with   *)
(* the malformed item included, has its rows stored.  Stated for the       *)
(* three sources that write one row per hour.                              *)
(***************************************************************************)
C19_OnlyMalformedItemSkipped ==
  pc = "done" =>
    \A s \in {"API1", "API2", "API4"} :
      /\ \A r \in store[s] : r.key[3] \notin {TagNode("m"), TagNode("n")}
      /\ \A p \in DOMAIN feed[s].pages : \A i \in DOMAIN feed[s].pages[p] :
           LET t == feed[s].pages[p][i]
           IN  (/\ t \notin {"m", "n"}
                /\ is_seoul_route(BusRouteIds, BusRouteNames, TagRoute(t),
                                  IF s = "API1" THEN TagRouteNm(t) ELSE ""))
               => \E r \in store[s] :
                    r.key[2] = TagRoute(t) /\ r.key[3] = TagNode(t)

(***************************************************************************)
(* C20: a failed batch write does not keep later batches from being        *)
(* written: once a write of the run has failed, a page with rows to write  *)
(* that the unit processes while the storage works has all its rows in the *)
(* table after the step.  The writers of API1 and API2 take the next       *)
(* pooled connection, the writers of API3 and API4 use self.conn, and      *)
(* neither is checked or renewed after the storage has come back.          *)
(***************************************************************************)
C20_LaterBatchesWritten ==
  [][(/\ writeFailed
      /\ pc = "page"
      /\ pc' # "page"
      /\ dbUp
      /\ response_data.ok
      /\ ~TransformRaises(Src,
            SeoulItems(Src, [i \in DOMAIN response_data.items |->
                               ItemOf(Src, response_data.items[i])],
                       seoul_route_ids, seoul_route_names),
            seoul_route_ids, seoul_route_names))
     => LET items == [i \in DOMAIN response_data.items |->
                        ItemOf(Src, response_data.items[i])]
            kept == SeoulItems(Src, items, seoul_route_ids, seoul_route_names)
            raw == RawBatches(Src, kept, current_date, seoul_route_ids,
                              seoul_route_names)
        IN  \A b \in DOMAIN raw :
              KeysOf(Src, raw[b]) \subseteq StoredKeys(Src, store'[Src])]_vars

(***************************************************************************)
(* C21: in the aggregate refresh a failure of one step is only logged and  *)
(* every later step still runs: whenever the refresh has been called, all  *)
(* its statements have been executed, in their fixed order.  The first     *)
(* statement has no try of its own.                                        *)
(***************************************************************************)
C21_LaterStepsStillRun ==
  refreshCalls > 0 =>
    mv_ran = <<"refresh_all_traffic_views", "pg_matviews",
               "check_mv_statistics">>

\* the keys of the rows of page p of the unit of source s for the date
PageKeys(s, p, date) ==
  LET tags == feed[s].pages[p]
      items == [i \in DOMAIN tags |-> ItemOf(s, tags[i])]
      kept == SeoulItems(s, items, seoul_route_ids, seoul_route_names)
      raw == RawBatches(s, kept, date, seoul_route_ids, seoul_route_names)
  IN  UNION {KeysOf(s, raw[b]) : b \in DOMAIN raw}

(***************************************************************************)
(* C22: in sequential mode the units of a date start in the order API1,    *)
(* API2, API3, API4 (station passenger, section passenger, OD traffic,     *)
(* section speed), the next unit is taken only when the pagination of the  *)
(* running one has ended, the date only goes up and only after the unit of *)
(* API4, and within a unit the page number goes up by one in the very step *)
(* that has written the rows of the page, so that when page N+1 is         *)
(* requested the rows of the pages 1..N are in the table.                  *)
(***************************************************************************)
C22_UnitsAndPagesInOrder ==
  [][/\ (api_idx' # api_idx /\ pc # "day_loop") =>
          /\ pc = "unit_end"
          /\ current_date' = current_date
          /\ <<Src, Src'>> \in {<<"API1", "API2">>, <<"API2", "API3">>,
                                <<"API3", "API4">>}
     /\ (pc = "day_loop" /\ pc' = "unit_start") => Src' = "API1"
     /\ current_date' # current_date =>
          /\ pc = "unit_end"
          /\ Src = "API4"
          /\ current_date' = current_date + 1
     /\ page_num' # page_num =>
          \/ pc = "unit_start" /\ page_num' = 1
          \/ /\ pc = "page"
             /\ page_num' = page_num + 1
             /\ page_num <= Len(feed[Src].pages) =>
                  PageKeys(Src, page_num, current_date)
                    \subseteq StoredKeys(Src, store'[Src])
     /\ httpAttempts' # httpAttempts =>
          /\ pc = "request"
          /\ \A p \in 1..(page_num - 1) :
               p <= Len(feed[Src].pages) =>
                 PageKeys(Src, p, current_date)
                   \subseteq StoredKeys(Src, store[Src])
    ]_vars

\* the second page of the section-speed unit of the last date is requested
\* with the rows of its first page in the table
C22_Witness ==
  /\ pc = "request"
  /\ attempt = 0
  /\ Src = "API4"
  /\ current_date = NumDates
  /\ page_num = 2
  /\ PageKeys("API4", 1, NumDates) # {}
  /\ PageKeys("API4", 1, NumDates) \subseteq StoredKeys("API4", store["API4"])
  /\ totals["API1"] > 0

(***************************************************************************)
(* C23: a unit whose pagination was cut short by a failure ends with the   *)
(* status FAILED, never SUCCESS: when the unit ends after a page that was  *)
(* abandoned with its retries exhausted, the status written for its source *)
(* is FAILED.  The pagination loop leaves by "break" on every such failure *)
(* and the code after the loop writes SUCCESS.                             *)
(***************************************************************************)
C23_CutShortUnitEndsFailed ==
  [][(pc = "unit_end" /\ lastStatus \in {"503", "exception"})
       => job_status'[Src] = "FAILED"]_vars

\* tag t of a page of source s is in scope of the route filter
InScope(s, t) ==
  is_seoul_route(BusRouteIds, BusRouteNames, TagRoute(t),
                 IF s = "API1" THEN TagRouteNm(t) ELSE "")

\* the rows handed to the writer for the page of the chunk pipeline
HandedRows ==
  UNION {{dd_out.batches[b][i] : i \in DOMAIN dd_out.batches[b]} :
           b \in DOMAIN dd_out.batches}

(***************************************************************************)
(* C24 as stated: the section-speed source (API4) is not filtered, every   *)
(* item of its page gets its rows whatever its route, and the three other  *)
(* sources hand over no row of an item that is out of scope.               *)
(***************************************************************************)
C24_SpeedUnfilteredOthersFiltered ==
  (dd_out.done /\ ~dd_out.raised) =>
    IF dd_src = "API4"
    THEN \A i \in DOMAIN dd_page :
           \E r \in HandedRows : /\ r.key[2] = TagRoute(dd_page[i])
                                 /\ r.key[3] = TagNode(dd_page[i])
    ELSE \A r \in HandedRows :
           \E i \in DOMAIN dd_page : /\ r.key[3] = TagNode(dd_page[i])
                                     /\ InScope(dd_src, dd_page[i])

(***************************************************************************)
(* C24 amended: the OD-traffic source (API3), whose items carry no route,  *)
(* is the one that is not filtered: every item of its page gets its row.   *)
(* The three other sources, section speed included, hand over the rows of  *)
(* the items in scope and of no other item.                                *)
(***************************************************************************)
C24_OdUnfilteredOthersFiltered ==
  (dd_out.done /\ ~dd_out.raised) =>
    IF dd_src = "API3"
    THEN \A i \in DOMAIN dd_page :
           \E r \in HandedRows : r.key[3] = TagNode(dd_page[i])
    ELSE /\ \A r \in HandedRows :
              \E i \in DOMAIN dd_page : /\ r.key[2] = TagRoute(dd_page[i])
                                        /\ r.key[3] = TagNode(dd_page[i])
                                        /\ InScope(dd_src, dd_page[i])
         /\ \A i \in DOMAIN dd_page :
              InScope(dd_src, dd_page[i]) =>
                \E r \in HandedRows : /\ r.key[2] = TagRoute(dd_page[i])
                                      /\ r.key[3] = TagNode(dd_page[i])

\* a page of the OD source with an item of the route that is out of scope
\* for the others: its row is handed over
C24_Witness ==
  /\ dd_out.done
  /\ ~dd_out.raised
  /\ dd_src = "API3"
  /\ \E i \in DOMAIN dd_page : dd_page[i] = "c"
  /\ \E r \in HandedRows : r.key[3] = TagNode("c")

\* the batches of the page the pagination loop holds, before the duplicate
\* check, and all their rows in the order they were fetched
CurrentRaw ==
  RawBatches(Src,
             SafeItems(Src,
                       SeoulItems(Src,
                                  [i \in DOMAIN response_data.items |->
                                     ItemOf(Src, response_data.items[i])],
                                  seoul_route_ids, seoul_route_names),
                       seoul_route_ids, seoul_route_names),
             current_date, seoul_route_ids, seoul_route_names)

RECURSIVE Flatten(_)
Flatten(batches) ==
  IF batches = <<>> THEN <<>> ELSE Head(batches) \o Flatten(Tail(batches))

\* the value of the last row with key k in rows
LastFetchedVal(rows, k) ==
  rows[CHOOSE i \in DOMAIN rows :
         /\ rows[i].key = k
         /\ \A j \in DOMAIN rows : rows[j].key = k => j <= i].val

\* the value of the first row with key k in the last batch that holds k
LastWrittenVal(raw, k) ==
  LET b == CHOOSE c \in DOMAIN raw :
             /\ \E i \in DOMAIN raw[c] : raw[c][i].key = k
             /\ \A d \in DOMAIN raw :
                  (\E i \in DOMAIN raw[d] : raw[d][i].key = k) => d <= c
      i == CHOOSE n \in DOMAIN raw[b] :
             /\ raw[b][n].key = k
             /\ \A m \in DOMAIN raw[b] : raw[b][m].key = k => n <= m
  IN  raw[b][i].val

(***************************************************************************)
(* C25 as stated: last-write-wins down to the occurrences of one chunk:    *)
(* after a page has been written, every key of the page is stored with the *)
(* value of its occurrence fetched last.                                   *)
(***************************************************************************)
C25_LastFetchedWins ==
  [][(pc = "page" /\ response_data.ok /\ pc' # "page") =>
       \A k \in {r.key : r \in {Flatten(CurrentRaw)[i] :
                                  i \in DOMAIN Flatten(CurrentRaw)}} :
          \E r \in store'[Src] :
             r.key = k /\ r.val = LastFetchedVal(Flatten(CurrentRaw), k)]_vars

(***************************************************************************)
(* C25 amended: the last write wins, and the duplicate check decides what  *)
(* is written: after a page has been written, every key of the page is     *)
(* stored once, with the value of its first occurrence in the last batch   *)
(* of the page that holds the key, and the rows of the other keys are      *)
(* untouched.                                                              *)
(***************************************************************************)
C25_LastBatchFirstOccurrenceWins ==
  [][(pc = "page" /\ response_data.ok /\ pc' # "page") =>
       LET keys == {r.key : r \in {Flatten(CurrentRaw)[i] :
                                     i \in DOMAIN Flatten(CurrentRaw)}}
       IN  /\ \A k \in keys :
                /\ \E r \in store'[Src] :
                     r.key = k /\ r.val = LastWrittenVal(CurrentRaw, k)
                /\ Cardinality({r \in store'[Src] : r.key = k}) = 1
           /\ {r \in store'[Src] : r.key \notin keys}
                = {r \in store[Src] : r.key \notin keys}]_vars

\* one unit has stored the value of the first of two occurrences of a chunk,
\* another the value of the second of two occurrences in different chunks
C25_Witness ==
  /\ \E s \in Sources :
       /\ feed[s] = FeedChoices[2]
       /\ \E r \in store[s] : r.key[3] = "STA001" /\ r.val = 42
       /\ \A r \in store[s] : r.val # 7
  /\ \E s \in Sources \ {"API3"} :
       /\ feed[s] = FeedChoices[1]
       /\ \E r \in store[s] : r.key[3] = "STA001" /\ r.val = 7
       /\ \A r \in store[s] : r.val # 42

(***************************************************************************)
(* C26: every pooled write gives its connection back whether it commits or *)
(* raises: a task holds a connection only between the getconn and the      *)
(* putconn of one write, never more than one, a task that has ended holds  *)
(* none, and the number of connections checked out is at most the number   *)
(* of running tasks of the pooled sources, hence at most maxconn.          *)
(***************************************************************************)
C26_ConnectionsGivenBack ==
  /\ CheckedOut <= maxconn
  /\ CheckedOut <= Cardinality({t \in DOMAIN tasks :
                                  /\ tasks[t].st = "running"
                                  /\ TaskSrc(t) \in PooledSources})
  /\ \A t \in DOMAIN tasks :
       /\ tasks[t].held \in {0, 1}
       /\ tasks[t].held = 1 =>
            /\ tasks[t].st = "running"
            /\ tasks[t].pos <= tasks[t].writes
       /\ tasks[t].st \in {"queued", "done"} => tasks[t].held = 0

\* a worker is inside a pooled write after a write of another task has
\* raised and that task has ended
C26_Witness ==
  /\ CheckedOut >= 1
  /\ \E t \in DOMAIN tasks :
       /\ tasks[t].st = "done"
       /\ TaskSrc(t) \in PooledSources
       /\ tasks[t].pos = tasks[t].writes + 1
       /\ tasks[t].result = 0
       /\ tasks[t].writes > 0

(***************************************************************************)
(* C27: a failure while writing a job status record or a job log record is *)
(* swallowed by the recorder: the unit goes on, the count it returns is    *)
(* the count it returns when the recorder's writes succeed, and the next   *)
(* unit still runs.  With a sound upstream and sound connections the count *)
(* of a unit is the count of its pagination run to its end.                *)
(***************************************************************************)
C27_RecorderFailureLeavesCountAlone ==
  pc = "unit_end" =>
    daily_inserted =
      UnitRun(Src, current_date, 1,
              [table |-> {}, inserted |-> 0, calls |-> 0, writes |-> 0,
               stats |-> filter_stats, wfail |-> FALSE],
              BusRouteIds, BusRouteNames, TRUE).inserted

(***************************************************************************)
(* C28: in every reachable state, for each filtered source the kept        *)
(* counter (seoul_filtered) is at most the fetched counter                 *)
(* (total_fetched), also when several tasks of the same source run at      *)
(* once.                                                                   *)
(***************************************************************************)
C28_KeptAtMostFetched ==
  \A s \in DOMAIN filter_stats :
    filter_stats[s].seoul_filtered <= filter_stats[s].total_fetched

(***************************************************************************)
(* C29: a non-empty fetched page whose items are all dropped by the route  *)
(* filter does not end pagination: the page counter advances and the next  *)
(* page is requested (unless the ceiling is reached); and the pagination   *)
(* of a unit ends only on an empty page, on a fetch that returned no data, *)
(* on a processing error or at the page ceiling.                           *)
(***************************************************************************)
\* the fetched page is not empty and the route filter drops all its items
PageAllDropped ==
  /\ response_data.ok
  /\ response_data.items # <<>>
  /\ Src # "API3"
  /\ \A i \in DOMAIN response_data.items :
       ~InScope(Src, response_data.items[i])

\* the transformation or the write of the fetched page raises
PageError ==
  \/ TransformRaises(Src,
                     SeoulItems(Src,
                                [i \in DOMAIN response_data.items |->
                                   ItemOf(Src, response_data.items[i])],
                                seoul_route_ids, seoul_route_names),
                     seoul_route_ids, seoul_route_names)
  \/ ~WriteSucceeds(Src,
                    [b \in DOMAIN CurrentRaw |->
                       Deduplicate(CurrentRaw[b]).unique],
                    conn, poolBroken, dbUp)

C29_AllDroppedPageGoesOn ==
  [][/\ (pc = "page" /\ pc' # "page" /\ PageAllDropped) =>
          /\ page_num' = page_num + 1
          /\ pc' = "request" \/ CeilingReached(page_num')
     /\ (pc = "page" /\ pc' = "unit_end") =>
          \/ ~response_data.ok
          \/ response_data.items = <<>>
          \/ PageError
          \/ CeilingReached(page_num')]_vars

\* the first page of the unit was dropped whole and the second page has been
\* requested
C29_Witness ==
  /\ pc = "page"
  /\ page_num = 2
  /\ pagesRequested = 2
  /\ Src # "API3"
  /\ Answer(Src, 1).items # <<>>
  /\ \A i \in DOMAIN Answer(Src, 1).items : ~InScope(Src, Answer(Src, 1).items[i])

(***************************************************************************)
(* C30: in parallel mode the aggregate refresh starts only after every     *)
(* submitted task has finished running, including tasks already reported   *)
(* as timed out: no unit issues a fetch or writes a fact row while the     *)
(* refresh runs or after it.                                               *)
(***************************************************************************)
C30_RefreshAfterEveryTask ==
  [][/\ refreshCalls' # refreshCalls =>
          \A t \in DOMAIN tasks : tasks[t].st = "done"
     /\ refreshCalls > 0 =>
          /\ store' = store
          /\ httpAttempts' = httpAttempts
          /\ \A t \in DOMAIN tasks : tasks'[t].st = "done"]_vars

\* the refresh has run; a task that was reported as timed out fetched and
\* wrote its rows before it
C30_Witness ==
  /\ pc = "done"
  /\ refreshCalls = 1
  /\ futures # <<>>
  /\ \E t \in DOMAIN tasks :
       /\ tasks[t].got = "timeout"
       /\ tasks[t].st = "done"
       /\ tasks[t].result > 0

====
